---- MODULE Spec2Model ----
(***************************************************************************)
(* The text search of the video-analytics backend:                         *)
(*   app/application/search/search_service.py   (search_by_text)           *)
(*   app/application/search/query_parser.py     (parse_query)              *)
(*   app/application/search/color_score.py      (compute_color_score)      *)
(*   app/application/video/plate_ocr.py         (normalize_plate_text)     *)
(*   app/application/embeddings/ruclip_embedder.py (embed_text)            *)
(*                                                                         *)
(* Numbers.  A Python float is modelled as a fixed-point integer with      *)
(* One = 10^8.  Values computed from stored data (cosine, colour, plate    *)
(* scores) are computed in thousandths or millionths and scaled.  The      *)
(* relaxation thresholds are decimal literals and repeated float           *)
(* subtractions of 0.10; their IEEE-754 double rounding error is carried   *)
(* exactly, counted in units of 2^-56 and written into the lowest digits   *)
(* (one unit of 2^-56 is shown as one unit of 10^-8), so that a threshold  *)
(* that drifts just below or just above a decimal value compares with the  *)
(* scores as it does in the program.                                       *)
(*                                                                         *)
(* Text.  A query is a sequence of lower-case tokens (the whitespace-split *)
(* normalized text); a token is a string of a small vocabulary, and the    *)
(* parser's substring tests are tables over that vocabulary.  Cyrillic     *)
(* words are written in Latin transliteration.                             *)
(***************************************************************************)
EXTENDS Integers, Sequences, FiniteSets

(***************************************************************************)
(* Floats                                                                  *)
(***************************************************************************)
One == 100000000
Milli == 100000
Micro == 100

\* double(0.05) = Hex * 2^-56 with Hex = 3602879701896397; the model keeps a
\* double as  GridIndex * Grid + Residue  where Residue counts units of 2^-56
\* away from GridIndex * double(0.05).
Grid == 5000000
\* Hex mod 32: enough to round to an ulp of up to 16 units, ties to even.
HexMod32 == 13

Abs(x) == IF x < 0 THEN 0 - x ELSE x

Min(a, b) == IF a < b THEN a ELSE b

Max(a, b) == IF a > b THEN a ELSE b

GridIndex(x) == (x + (Grid \div 2)) \div Grid

Residue(x) == x - GridIndex(x) * Grid

\* Residue of the double nearest the decimal literal k * 0.05, k = 1..20
\* (0.05, 0.10, ..., 1.00).
LiteralResidue == <<0, 0, -1, 0, -1, -2, -3, 0, -1, -2, 1, -4, -1, -6, -3, 0, -5, -2, -7, -4>>

\* The double a decimal literal with c hundredths (a multiple of 5) denotes.
Literal(c) ==
    IF c = 0 THEN 0 ELSE (c \div 5) * Grid + LiteralResidue[c \div 5]

\* The spacing of doubles around x, in units of 2^-56:
\* 2^56 = 20*Hex - 4, 2^55 = 10*Hex - 2, 2^54 = 5*Hex - 1, 2^53 = 2.5*Hex - 0.5.
Ulp(x) ==
    LET m == Abs(x)
    IN  IF m >= 20 * Grid - 4 THEN 16
        ELSE IF m >= 10 * Grid - 2 THEN 8
        ELSE IF m >= 5 * Grid - 1 THEN 4
        ELSE IF m >= 3 * Grid - (Grid \div 2) THEN 2
        ELSE 1

\* Round an exact result to the nearest double, ties to the even mantissa.
RoundToDouble(x) ==
    LET q    == Ulp(x)
        bits == (GridIndex(x) * HexMod32 + Residue(x)) % (2 * q)
        r    == bits % q
    IN  IF r = 0 THEN x
        ELSE IF 2 * r < q THEN x - r
        ELSE IF 2 * r > q THEN x + (q - r)
        ELSE IF bits = r THEN x - r
        ELSE x + (q - r)

\* x - y in double arithmetic, for x, y near multiples of 0.05.
FloatSub(x, y) == RoundToDouble(x - y)

(***************************************************************************)
(* Stored text columns                                                     *)
(***************************************************************************)
\* A nullable text column: SQL NULL, or a text split into its pieces.
Null == [null |-> TRUE, s |-> <<>>]

Text(s) == [null |-> FALSE, s |-> s]

\* One comma-separated field of an HSV text: a text float() accepts, or not.
Num(x) == [num |-> TRUE, val |-> x]

Junk == [num |-> FALSE, val |-> 0]

\* The embeddings.vector column: a JSON list of numbers, or a text json.loads
\* or float() rejects.
JsonVector(v) == [null |-> FALSE, json |-> TRUE, s |-> v]

BadVector == [null |-> FALSE, json |-> FALSE, s |-> <<>>]

NullVector == [null |-> TRUE, json |-> FALSE, s |-> <<>>]

NoneStr == "None"

(***************************************************************************)
(* search_service.py: helpers                                              *)
(***************************************************************************)
\* _parse_vector: the list, or None (here: [ok |-> FALSE]).
ParseVector(raw) ==
    IF raw.null THEN [ok |-> FALSE, v |-> <<>>]
    ELSE IF raw.json THEN [ok |-> TRUE, v |-> raw.s]
    ELSE [ok |-> FALSE, v |-> <<>>]

\* Variant: a field float() rejects is read as 0.
ParseHsvLenient(raw) ==
    IF raw.null \/ raw.s = <<>> THEN [ok |-> FALSE, h |-> 0, s |-> 0, v |-> 0]
    ELSE IF Len(raw.s) = 3
         THEN [ok |-> TRUE, h |-> raw.s[1].val, s |-> raw.s[2].val, v |-> raw.s[3].val]
         ELSE [ok |-> FALSE, h |-> 0, s |-> 0, v |-> 0]

\* _parse_hsv: exactly three comma-separated floats, or None.
ParseHsv(raw) ==
    IF raw.null \/ raw.s = <<>> THEN [ok |-> FALSE, h |-> 0, s |-> 0, v |-> 0]
    ELSE IF Len(raw.s) = 3 /\ \A i \in 1..3 : raw.s[i].num
         THEN [ok |-> TRUE, h |-> raw.s[1].val, s |-> raw.s[2].val, v |-> raw.s[3].val]
         ELSE [ok |-> FALSE, h |-> 0, s |-> 0, v |-> 0]

RECURSIVE Dot(_, _)
Dot(a, b) ==
    IF a = <<>> THEN 0 ELSE Head(a) * Head(b) + Dot(Tail(a), Tail(b))

RECURSIVE ISqrtFrom(_, _)
ISqrtFrom(n, r) ==
    IF (r + 1) * (r + 1) > n THEN r ELSE ISqrtFrom(n, r + 1)

ISqrt(n) == ISqrtFrom(n, 0)

\* _cosine_similarity for vectors of the same length: dot / sqrt(na * nb),
\* 0 when a norm is 0; in thousandths, truncated toward 0.
CosineSimilarity(a, b) ==
    LET dot == Dot(a, b)
        na  == Dot(a, a)
        nb  == Dot(b, b)
    IN  IF na = 0 \/ nb = 0 THEN 0
        ELSE LET milli == (Abs(dot) * 1000) \div ISqrt(na * nb)
             IN  (IF dot < 0 THEN 0 - milli ELSE milli) * Milli

\* Variant: one weight row for every hit.
CombineScoresFixed(clip_score, color_score, plate_score) ==
    (4 * clip_score + 2 * color_score + 4 * plate_score) \div 10

\* Variant: the colour and plate scores are added to the whole clip score.
CombineScoresAdditive(clip_score, color_score, plate_score) ==
    (10 * clip_score + 4 * color_score + 6 * plate_score) \div 10

\* _combine_scores: the weight row is chosen by color_score > 0, plate_score > 0.
CombineScores(clip_score, color_score, plate_score) ==
    LET has_color == color_score > 0
        has_plate == plate_score > 0
        w == IF ~has_color /\ ~has_plate THEN <<10, 0, 0>>
             ELSE IF has_color /\ ~has_plate THEN <<6, 4, 0>>
             ELSE IF has_plate /\ ~has_color THEN <<4, 0, 6>>
             ELSE <<4, 2, 4>>
    IN  (w[1] * clip_score + w[2] * color_score + w[3] * plate_score) \div 10

(***************************************************************************)
(* color_score.py.  h in degrees, s and v in hundredths; component scores  *)
(* in thousandths, the result scaled to One.                               *)
(***************************************************************************)
SUPPORTED_COLORS ==
    {"red", "green", "blue", "yellow", "orange", "purple", "brown", "white", "gray", "black"}

HUE_REF(color) ==
    CASE color = "red" -> 0
      [] color = "orange" -> 30
      [] color = "yellow" -> 55
      [] color = "green" -> 120
      [] color = "blue" -> 220
      [] color = "purple" -> 275
      [] color = "brown" -> 25

Clamp(value, min_value, max_value) ==
    IF value < min_value THEN min_value
    ELSE IF value > max_value THEN max_value
    ELSE value

CircularHueDistance(h, ref_h) ==
    LET d_raw == Abs(h - ref_h) IN Min(d_raw, 360 - d_raw)

HueScore(d_h) == IF d_h >= 40 THEN 0 ELSE 1000 - (d_h * 1000) \div 40

ChromaticSScore(s) ==
    IF s <= 5 THEN 0
    ELSE IF s >= 50 THEN 1000
    ELSE ((s - 5) * 1000) \div 45

ChromaticVScore(v) ==
    IF v <= 10 THEN 400
    ELSE IF v <= 40 THEN 400 + ((v - 10) * 600) \div 30
    ELSE IF v <= 80 THEN 1000
    ELSE IF v <= 95 THEN 1000 - ((v - 80) * 500) \div 15
    ELSE 500

BrownVScore(v) ==
    IF v <= 10 \/ v >= 80 THEN 0
    ELSE IF v <= 40 THEN ((v - 10) * 1000) \div 30
    ELSE ((80 - v) * 1000) \div 40

BrownSScore(s) ==
    IF s <= 30 THEN 0
    ELSE IF s >= 80 THEN 1000
    ELSE ((s - 30) * 1000) \div 50

\* _score_chromatic, in millionths.
ScoreChromatic(color, h, s, v) ==
    LET hue_component == HueScore(CircularHueDistance(h, HUE_REF(color)))
        score == IF color = "brown"
                 THEN (hue_component * BrownSScore(s) * BrownVScore(v)) \div 1000
                 ELSE hue_component * ((ChromaticSScore(s) + ChromaticVScore(v)) \div 2)
    IN  Clamp(score, 0, 1000000)

WhiteScore(s, v) ==
    LET s_component == IF s <= 10 THEN 1000
                       ELSE IF s >= 40 THEN 0
                       ELSE 1000 - ((s - 10) * 1000) \div 30
        v_component == IF v <= 40 THEN 0
                       ELSE IF v >= 70 THEN 1000
                       ELSE ((v - 40) * 1000) \div 30
    IN  Clamp(s_component * v_component, 0, 1000000)

GrayScore(s, v) ==
    LET s_component == IF s <= 0 THEN 1000
                       ELSE IF s >= 40 THEN 0
                       ELSE 1000 - (s * 1000) \div 40
        v_component == IF v <= 20 \/ v >= 90 THEN 0
                       ELSE IF v <= 50 THEN ((v - 20) * 1000) \div 30
                       ELSE ((90 - v) * 1000) \div 40
    IN  Clamp(s_component * v_component, 0, 1000000)

BlackScore(v) ==
    IF v <= 12 THEN 1000000
    ELSE IF v >= 50 THEN 0
    ELSE (1000 - ((v - 12) * 1000) \div 38) * 1000

ScoreAchromatic(color, s, v) ==
    IF color = "white" THEN WhiteScore(s, v)
    ELSE IF color = "gray" THEN GrayScore(s, v)
    ELSE IF color = "black" THEN BlackScore(v)
    ELSE 0

\* Variant: the inputs are used as they come.
ComputeColorScoreUnclamped(query_color, h, s, v) ==
    IF query_color \notin SUPPORTED_COLORS THEN 0
    ELSE IF query_color \in {"white", "gray", "black"}
         THEN ScoreAchromatic(query_color, s, v) * Micro
         ELSE ScoreChromatic(query_color, h, s, v) * Micro

\* compute_color_score
ComputeColorScore(query_color, h, s, v) ==
    IF query_color \notin SUPPORTED_COLORS THEN 0
    ELSE LET hc == Clamp(h, 0, 360)
             sc == Clamp(s, 0, 100)
             vc == Clamp(v, 0, 100)
         IN  IF query_color \in {"white", "gray", "black"}
             THEN ScoreAchromatic(query_color, sc, vc) * Micro
             ELSE ScoreChromatic(query_color, hc, sc, vc) * Micro

(***************************************************************************)
(* plate_ocr.py: normalize_plate_text.  A text is a sequence of            *)
(* characters; a Cyrillic capital is written "cyr:" and its look-alike or  *)
(* transliterated Latin letter.                                            *)
(***************************************************************************)
ALLOWED_PLATE_CHARS ==
    {"A", "B", "E", "K", "M", "H", "O", "P", "C", "T", "Y", "X",
     "0", "1", "2", "3", "4", "5", "6", "7", "8", "9"}

Digits == {"0", "1", "2", "3", "4", "5", "6", "7", "8", "9"}

RUS_TO_LAT_MAP ==
    [c \in {"cyr:A", "cyr:B", "cyr:E", "cyr:K", "cyr:M", "cyr:H",
            "cyr:O", "cyr:P", "cyr:C", "cyr:T", "cyr:Y", "cyr:X"} |->
        CASE c = "cyr:A" -> "A" [] c = "cyr:B" -> "B" [] c = "cyr:E" -> "E"
          [] c = "cyr:K" -> "K" [] c = "cyr:M" -> "M" [] c = "cyr:H" -> "H"
          [] c = "cyr:O" -> "O" [] c = "cyr:P" -> "P" [] c = "cyr:C" -> "C"
          [] c = "cyr:T" -> "T" [] c = "cyr:Y" -> "Y" [] c = "cyr:X" -> "X"]

\* Cyrillic capitals of the model's alphabet: the twelve of the map and two
\* that have no Latin look-alike.
CyrillicUpper == DOMAIN RUS_TO_LAT_MAP \cup {"cyr:D", "cyr:Zh"}

\* One character of the upper-cased text: the characters it contributes.
NormalizePlateChar(ch) ==
    IF ch = " " THEN <<>>
    ELSE IF ch \in Digits THEN <<ch>>
    ELSE IF ch \in CyrillicUpper /\ ch \notin DOMAIN RUS_TO_LAT_MAP THEN <<>>
    ELSE LET lat == IF ch \in CyrillicUpper THEN RUS_TO_LAT_MAP[ch] ELSE ch
             fix == IF lat \in {"O", "Q"} THEN "O"
                    ELSE IF lat \in {"I", "L"} THEN "1"
                    ELSE IF lat = "Z" THEN "2"
                    ELSE IF lat = "S" THEN "5"
                    ELSE lat
         IN  IF fix \in ALLOWED_PLATE_CHARS THEN <<fix>> ELSE <<>>

RECURSIVE NormalizePlateChars(_)
NormalizePlateChars(text) ==
    IF text = <<>> THEN <<>>
    ELSE NormalizePlateChar(Head(text)) \o NormalizePlateChars(Tail(text))

\* normalize_plate_text: None is the empty sequence (the callers test `not`).
NormalizePlateText(text) == NormalizePlateChars(text)

\* Length of a longest common subsequence.
RECURSIVE LcsLen(_, _)
LcsLen(a, b) ==
    IF a = <<>> \/ b = <<>> THEN 0
    ELSE IF Head(a) = Head(b) THEN 1 + LcsLen(Tail(a), Tail(b))
    ELSE Max(LcsLen(Tail(a), b), LcsLen(a, Tail(b)))

\* rapidfuzz fuzz.ratio / 100: the normalized indel similarity
\* 2 * lcs / (len(a) + len(b)), in thousandths.
FuzzRatio(a, b) == (2000 * LcsLen(a, b)) \div (Len(a) + Len(b))

MIN_PLATE_SIMILARITY == 400

\* Variant: a low similarity is returned as it is.
ComputePlateScoreNoFloor(query_plate, db_plate) ==
    IF query_plate = <<>> \/ db_plate.null \/ db_plate.s = <<>> THEN 0
    ELSE LET q_norm  == NormalizePlateChars(query_plate)
             db_norm == NormalizePlateChars(db_plate.s)
         IN  IF q_norm = <<>> \/ db_norm = <<>> THEN 0
             ELSE IF q_norm = db_norm THEN One
             ELSE FuzzRatio(q_norm, db_norm) * Milli

\* _compute_plate_score; query_plate is a character sequence (<<>> for None),
\* db_plate a nullable text column.
ComputePlateScore(query_plate, db_plate) ==
    IF query_plate = <<>> \/ db_plate.null \/ db_plate.s = <<>> THEN 0
    ELSE LET q_norm  == NormalizePlateText(query_plate)
             db_norm == NormalizePlateText(db_plate.s)
         IN  IF q_norm = <<>> \/ db_norm = <<>> THEN 0
             ELSE IF q_norm = db_norm THEN One
             ELSE LET score == FuzzRatio(q_norm, db_norm)
                  IN  IF score < MIN_PLATE_SIMILARITY THEN 0 ELSE score * Milli

(***************************************************************************)
(* query_parser.py.  The vocabulary: each token with the keywords and      *)
(* stems it contains as substrings.                                        *)
(*   "man", "woman"      person words ("woman" contains "man")             *)
(*   "car", "cars", "truck"  transport words ("cars" contains "car")       *)
(*   "black", "red", "pink"  colour words                                  *)
(*   "kurtka"            upper garment (stem "kurtk")                      *)
(*   "shtany"            lower garment (stems "shtan", "shtany")           *)
(*   "street", "near"    words that match nothing                          *)
(*   "a123bc77"          a licence plate, Latin letters                    *)
(*   "cyr:a123bc77"      the same plate typed with Cyrillic look-alikes    *)
(***************************************************************************)
PersonKeywordsIn(token) ==
    CASE token = "man" -> {"man"}
      [] token = "woman" -> {"man", "woman"}
      [] OTHER -> {}

TransportKeywordsIn(token) ==
    CASE token = "car" -> {"car"}
      [] token = "cars" -> {"car", "cars"}
      [] token = "truck" -> {"truck"}
      [] OTHER -> {}

\* _match_color: the first colour family with a stem in the token, or None.
MatchColor(token) ==
    CASE token = "black" -> "black"
      [] token = "red" -> "red"
      [] token = "pink" -> "pink"
      [] OTHER -> NoneStr

\* _token_matches_any(token, _UPPER_CLOTHES_KEYWORDS)
MatchesUpperClothes(token) == token = "kurtka"

\* _token_matches_any(token, _LOWER_CLOTHES_KEYWORDS)
MatchesLowerClothes(token) == token = "shtany"

\* _PLATE_REGEX matches inside the token: letter, 3 digits, 2 letters, 2-3 digits.
PlateTokens == {"a123bc77", "cyr:a123bc77"}

\* The matched groups joined and upper-cased.
PlateGroupsUpper(token) ==
    IF token = "a123bc77" THEN <<"A", "1", "2", "3", "B", "C", "7", "7">>
    ELSE <<"cyr:A", "1", "2", "3", "cyr:B", "cyr:C", "7", "7">>

RECURSIVE FirstPlateIndex(_, _)
FirstPlateIndex(tokens, i) ==
    IF i > Len(tokens) THEN 0
    ELSE IF tokens[i] \in PlateTokens THEN i
    ELSE FirstPlateIndex(tokens, i + 1)

RemoveAt(seq, i) == SubSeq(seq, 1, i - 1) \o SubSeq(seq, i + 1, Len(seq))

\* _extract_plate: the first match, and the text without it.
ExtractPlate(tokens) ==
    LET i == FirstPlateIndex(tokens, 1)
    IN  IF i = 0 THEN [plate |-> <<>>, text_without_plate |-> tokens]
        ELSE [plate |-> PlateGroupsUpper(tokens[i]),
              text_without_plate |-> RemoveAt(tokens, i)]

\* _count_keyword_hits: the number of keywords that occur in the text.
CountPersonHits(tokens) ==
    Cardinality(UNION {PersonKeywordsIn(tokens[i]) : i \in 1..Len(tokens)})

CountTransportHits(tokens) ==
    Cardinality(UNION {TransportKeywordsIn(tokens[i]) : i \in 1..Len(tokens)})

\* Variant: equal non-zero counts go to PERSON.
DetectTypeTieToPerson(tokens) ==
    LET person_score    == CountPersonHits(tokens)
        transport_score == CountTransportHits(tokens)
    IN  IF person_score = 0 /\ transport_score = 0 THEN NoneStr
        ELSE IF person_score >= transport_score THEN "PERSON"
        ELSE "TRANSPORT"

\* _detect_type
DetectType(tokens) ==
    LET person_score    == CountPersonHits(tokens)
        transport_score == CountTransportHits(tokens)
    IN  IF person_score = 0 /\ transport_score = 0 THEN NoneStr
        ELSE IF person_score > transport_score THEN "PERSON"
        ELSE IF transport_score > person_score THEN "TRANSPORT"
        ELSE NoneStr

\* _detect_colors_with_tokens: the (token index, colour) pairs, in order.
RECURSIVE DetectColors(_, _)
DetectColors(tokens, i) ==
    IF i > Len(tokens) THEN <<>>
    ELSE IF MatchColor(tokens[i]) # NoneStr
         THEN <<[idx |-> i, color |-> MatchColor(tokens[i])]>> \o DetectColors(tokens, i + 1)
         ELSE DetectColors(tokens, i + 1)

max_distance == 3

\* _closest_color_for_index: the loop over colors, from position k.
RECURSIVE ClosestColorLoop(_, _, _, _, _)
ClosestColorLoop(colors, index, k, best, best_distance) ==
    IF k > Len(colors) THEN best
    ELSE LET distance == Abs(colors[k].idx - index)
         IN  IF distance <= max_distance /\ distance < best_distance
             THEN ClosestColorLoop(colors, index, k + 1, colors[k].color, distance)
             ELSE ClosestColorLoop(colors, index, k + 1, best, best_distance)

\* Variant: the first colour found, at any distance.
ClosestColorFirst(colors, index) ==
    IF colors = <<>> THEN NoneStr ELSE colors[1].color

ClosestColorForIndex(colors, index) ==
    ClosestColorLoop(colors, index, 1, NoneStr, max_distance + 1)

\* _split_colors_by_clothes: the loop over tokens, from position idx.
RECURSIVE SplitLoop(_, _, _, _, _)
SplitLoop(colors, tokens, idx, upper_color, lower_color) ==
    IF idx > Len(tokens) THEN [upper_color |-> upper_color, lower_color |-> lower_color]
    ELSE LET nearest == ClosestColorForIndex(colors, idx)
             upper   == IF MatchesUpperClothes(tokens[idx]) /\ nearest # NoneStr
                           /\ upper_color = NoneStr
                        THEN nearest ELSE upper_color
             lower   == IF MatchesLowerClothes(tokens[idx]) /\ nearest # NoneStr
                           /\ lower_color = NoneStr
                        THEN nearest ELSE lower_color
         IN  SplitLoop(colors, tokens, idx + 1, upper, lower)

SplitColorsByClothes(colors, tokens, obj_type) ==
    IF obj_type # "PERSON" \/ colors = <<>>
    THEN [upper_color |-> NoneStr, lower_color |-> NoneStr,
          generic_color |-> IF colors # <<>> THEN colors[1].color ELSE NoneStr]
    ELSE LET r == SplitLoop(colors, tokens, 1, NoneStr, NoneStr)
         IN  [upper_color |-> r.upper_color, lower_color |-> r.lower_color,
              generic_color |-> IF r.upper_color = NoneStr /\ r.lower_color = NoneStr
                                THEN colors[1].color ELSE NoneStr]

\* Variant: the first colour found is always the generic colour.
ParseQueryGenericAlways(tokens) ==
    LET ep     == ExtractPlate(tokens)
        colors == DetectColors(tokens, 1)
        split  == SplitColorsByClothes(colors, tokens, DetectType(tokens))
    IN  [type |-> DetectType(tokens),
         color |-> IF colors # <<>> THEN colors[1].color ELSE NoneStr,
         upper_color |-> split.upper_color,
         lower_color |-> split.lower_color,
         plate |-> ep.plate,
         cleaned_text |-> ep.text_without_plate]

\* Variant: the colour words are cut out of the cleaned text with the plate.
ParseQueryStripColors(tokens) ==
    LET ep     == ExtractPlate(tokens)
        colors == DetectColors(tokens, 1)
        split  == SplitColorsByClothes(colors, tokens, DetectType(tokens))
    IN  [type |-> DetectType(tokens),
         color |-> IF split.upper_color # NoneStr \/ split.lower_color # NoneStr
                   THEN NoneStr ELSE split.generic_color,
         upper_color |-> split.upper_color,
         lower_color |-> split.lower_color,
         plate |-> ep.plate,
         cleaned_text |-> SelectSeq(ep.text_without_plate,
                                    LAMBDA token : MatchColor(token) = NoneStr)]

\* parse_query on the normalized text.
ParseQuery(tokens) ==
    LET ep       == ExtractPlate(tokens)
        obj_type == DetectType(tokens)
        colors   == DetectColors(tokens, 1)
        split    == SplitColorsByClothes(colors, tokens, obj_type)
    IN  [type |-> obj_type,
         color |-> IF split.upper_color # NoneStr \/ split.lower_color # NoneStr
                   THEN NoneStr ELSE split.generic_color,
         upper_color |-> split.upper_color,
         lower_color |-> split.lower_color,
         plate |-> ep.plate,
         cleaned_text |-> ep.text_without_plate]

(***************************************************************************)
(* ruclip_embedder.py: embed_text.  The predictor is an external model:    *)
(* latents is the vector it returns for the text.                          *)
(***************************************************************************)
\* Variant: no test of the text.
EmbedTextAny(text, latents) == [ok |-> TRUE, v |-> latents]

EmbedText(text, latents) ==
    IF text = <<>> THEN [ok |-> FALSE, v |-> <<>>] ELSE [ok |-> TRUE, v |-> latents]

(***************************************************************************)
(* search_service.py: candidates and scoring.  db is the sequence of the   *)
(* embedding rows of the searched source and window, joined with their     *)
(* frame, object and attribute rows, in timestamp order; a row's position  *)
(* is its frame id, object id and timestamp.                               *)
(***************************************************************************)
max_candidates == 2000

\* Variant: one row short.
LimitShort(rows, n) == SubSeq(rows, 1, Min(Len(rows), n - 1))

Limit(rows, n) == SubSeq(rows, 1, Min(Len(rows), n))

\* The rows the frame query / the object query selects, as positions in db.
RECURSIVE SelectRows(_, _, _, _)
SelectRows(db, entity, type_filter, i) ==
    IF i > Len(db) THEN <<>>
    ELSE IF db[i].entity = entity
            /\ (type_filter = NoneStr \/ db[i].object_type = type_filter)
         THEN <<i>> \o SelectRows(db, entity, type_filter, i + 1)
         ELSE SelectRows(db, entity, type_filter, i + 1)

\* The loop over the fetched rows: a row whose vector does not parse is skipped.
RECURSIVE CandidatesOf(_, _)
CandidatesOf(db, ids) ==
    IF ids = <<>> THEN <<>>
    ELSE LET row == db[Head(ids)]
             vec == ParseVector(row.vector)
         IN  IF ~vec.ok THEN CandidatesOf(db, Tail(ids))
             ELSE <<[id |-> Head(ids),
                     object_type |-> row.object_type,
                     track_id |-> row.track_id,
                     vector |-> vec.v,
                     transport_color_hsv |-> row.color_hsv,
                     transport_plate |-> row.license_plate,
                     person_upper_hsv |-> row.upper_color_hsv,
                     person_lower_hsv |-> row.lower_color_hsv]>>
                  \o CandidatesOf(db, Tail(ids))

\* _fetch_frame_candidates
FetchFrameCandidates(db) ==
    CandidatesOf(db, Limit(SelectRows(db, "FRAME", NoneStr, 1), max_candidates))

\* Variant: the type filter of the query is not applied.
FetchObjectCandidatesAnyType(db, query_type) ==
    CandidatesOf(db, Limit(SelectRows(db, "OBJECT", NoneStr, 1), max_candidates))

\* _fetch_object_candidates
FetchObjectCandidates(db, query_type) ==
    CandidatesOf(db, Limit(SelectRows(db, "OBJECT", query_type, 1), max_candidates))

\* `x and y` on an optional colour and a nullable text: both truthy.
Truthy(col) == ~col.null /\ col.s # <<>>

\* Variant: a person's score is divided by the number of regions the query
\* asked for.
ComputeObjectColorScoreByRequest(parsed, cand) ==
    IF cand.object_type = "TRANSPORT"
    THEN LET hsv == ParseHsv(cand.transport_color_hsv)
         IN  IF parsed.color = NoneStr THEN 0
             ELSE IF ~hsv.ok THEN 0
             ELSE ComputeColorScore(parsed.color, hsv.h, hsv.s, hsv.v)
    ELSE IF cand.object_type = "PERSON"
    THEN LET hu == ParseHsv(cand.person_upper_hsv)
             hl == ParseHsv(cand.person_lower_hsv)
             su == IF parsed.upper_color # NoneStr /\ Truthy(cand.person_upper_hsv) /\ hu.ok
                   THEN ComputeColorScore(parsed.upper_color, hu.h, hu.s, hu.v)
                   ELSE 0
             sl == IF parsed.lower_color # NoneStr /\ Truthy(cand.person_lower_hsv) /\ hl.ok
                   THEN ComputeColorScore(parsed.lower_color, hl.h, hl.s, hl.v)
                   ELSE 0
             asked == (IF parsed.upper_color # NoneStr THEN 1 ELSE 0)
                      + (IF parsed.lower_color # NoneStr THEN 1 ELSE 0)
         IN  IF asked = 0 THEN 0 ELSE (su + sl) \div asked
    ELSE 0

\* Variant: a person is scored on the generic colour, against the upper HSV,
\* when the query binds no colour to a garment.
ComputeObjectColorScoreGeneric(parsed, cand) ==
    IF cand.object_type = "TRANSPORT"
    THEN LET hsv == ParseHsv(cand.transport_color_hsv)
         IN  IF parsed.color = NoneStr THEN 0
             ELSE IF ~hsv.ok THEN 0
             ELSE ComputeColorScore(parsed.color, hsv.h, hsv.s, hsv.v)
    ELSE IF cand.object_type = "PERSON"
    THEN LET hu == ParseHsv(cand.person_upper_hsv)
             hl == ParseHsv(cand.person_lower_hsv)
             upper == IF parsed.upper_color # NoneStr THEN parsed.upper_color
                      ELSE IF parsed.lower_color = NoneStr THEN parsed.color
                      ELSE NoneStr
             su == IF upper # NoneStr /\ Truthy(cand.person_upper_hsv) /\ hu.ok
                   THEN <<ComputeColorScore(upper, hu.h, hu.s, hu.v)>>
                   ELSE <<>>
             sl == IF parsed.lower_color # NoneStr /\ Truthy(cand.person_lower_hsv) /\ hl.ok
                   THEN <<ComputeColorScore(parsed.lower_color, hl.h, hl.s, hl.v)>>
                   ELSE <<>>
             scores == su \o sl
         IN  IF scores = <<>> THEN 0
             ELSE IF Len(scores) = 1 THEN scores[1]
             ELSE (scores[1] + scores[2]) \div 2
    ELSE 0

\* _compute_object_color_score
ComputeObjectColorScore(parsed, cand) ==
    IF cand.object_type = "TRANSPORT"
    THEN LET hsv == ParseHsv(cand.transport_color_hsv)
         IN  IF parsed.color = NoneStr THEN 0
             ELSE IF ~hsv.ok THEN 0
             ELSE ComputeColorScore(parsed.color, hsv.h, hsv.s, hsv.v)
    ELSE IF cand.object_type = "PERSON"
    THEN LET hu == ParseHsv(cand.person_upper_hsv)
             hl == ParseHsv(cand.person_lower_hsv)
             su == IF parsed.upper_color # NoneStr /\ Truthy(cand.person_upper_hsv) /\ hu.ok
                   THEN <<ComputeColorScore(parsed.upper_color, hu.h, hu.s, hu.v)>>
                   ELSE <<>>
             sl == IF parsed.lower_color # NoneStr /\ Truthy(cand.person_lower_hsv) /\ hl.ok
                   THEN <<ComputeColorScore(parsed.lower_color, hl.h, hl.s, hl.v)>>
                   ELSE <<>>
             scores == su \o sl
         IN  IF scores = <<>> THEN 0
             ELSE IF Len(scores) = 1 THEN scores[1]
             ELSE (scores[1] + scores[2]) \div 2
    ELSE 0

\* One iteration of _score_frames.
ScoreFrame(query_vector, cand) ==
    LET clip == CosineSimilarity(query_vector, cand.vector)
    IN  [target_type |-> "frame", frame_id |-> cand.id, object_id |-> 0,
         timestamp_sec |-> cand.id,
         final_score |-> CombineScores(clip, 0, 0),
         clip_score |-> clip, color_score |-> 0, plate_score |-> 0, track_id |-> 0]

\* One iteration of _score_objects.
ScoreObject(parsed, query_vector, cand) ==
    LET clip  == CosineSimilarity(query_vector, cand.vector)
        color == ComputeObjectColorScore(parsed, cand)
        plate == ComputePlateScore(parsed.plate, cand.transport_plate)
    IN  [target_type |-> "object", frame_id |-> cand.id, object_id |-> cand.id,
         timestamp_sec |-> cand.id,
         final_score |-> CombineScores(clip, color, plate),
         clip_score |-> clip, color_score |-> color, plate_score |-> plate,
         track_id |-> cand.track_id]

\* _cosine_similarity raises ValueError for vectors of different lengths, and
\* neither scoring loop catches it.
LengthMismatch(query_vector, candidates) ==
    \E i \in 1..Len(candidates) : Len(candidates[i].vector) # Len(query_vector)

\* Variant: a candidate of another length is skipped.
ScoreCandidatesSkipping(parsed, query_vector, candidates) ==
    LET same == SelectSeq(candidates, LAMBDA c : Len(c.vector) = Len(query_vector))
    IN  [ok |-> TRUE,
         hits |-> [i \in 1..Len(same) |->
                     IF parsed.type = NoneStr
                     THEN ScoreFrame(query_vector, same[i])
                     ELSE ScoreObject(parsed, query_vector, same[i])]]

\* _score_frames / _score_objects: the hits, or the exception.
ScoreCandidates(parsed, query_vector, candidates) ==
    IF LengthMismatch(query_vector, candidates) THEN [ok |-> FALSE, hits |-> <<>>]
    ELSE [ok |-> TRUE,
          hits |-> [i \in 1..Len(candidates) |->
                      IF parsed.type = NoneStr
                      THEN ScoreFrame(query_vector, candidates[i])
                      ELSE ScoreObject(parsed, query_vector, candidates[i])]]

\* Variant: the colour gate rejects only a negative colour score.
PassesFilterLax(hit, query_has_color, query_has_plate, clip_min, final_min) ==
    /\ ~(hit.clip_score < clip_min)
    /\ ~(query_has_color /\ hit.color_score < 0)
    /\ ~(query_has_plate /\ hit.plate_score <= 0)
    /\ ~(hit.final_score < final_min)

\* The four gates of _filter_hits.
PassesFilter(hit, query_has_color, query_has_plate, clip_min, final_min) ==
    /\ ~(hit.clip_score < clip_min)
    /\ ~(query_has_color /\ hit.color_score <= 0)
    /\ ~(query_has_plate /\ hit.plate_score <= 0)
    /\ ~(hit.final_score < final_min)

\* _filter_hits: a new list, the hits that pass, in their order.
RECURSIVE FilterHits(_, _, _, _, _)
FilterHits(hits, query_has_color, query_has_plate, clip_min, final_min) ==
    IF hits = <<>> THEN <<>>
    ELSE (IF PassesFilter(Head(hits), query_has_color, query_has_plate, clip_min, final_min)
          THEN <<Head(hits)>> ELSE <<>>)
         \o FilterHits(Tail(hits), query_has_color, query_has_plate, clip_min, final_min)

\* list.sort(key = the field, reverse = True): stable, equal keys keep their order.
RECURSIVE InsertDesc(_, _, _)
InsertDesc(sorted, hit, key) ==
    IF sorted = <<>> THEN <<hit>>
    ELSE IF Head(sorted)[key] >= hit[key]
         THEN <<Head(sorted)>> \o InsertDesc(Tail(sorted), hit, key)
         ELSE <<hit>> \o sorted

RECURSIVE SortDescFrom(_, _, _)
SortDescFrom(sorted, rest, key) ==
    IF rest = <<>> THEN sorted
    ELSE SortDescFrom(InsertDesc(sorted, Head(rest), key), Tail(rest), key)

\* Variant: a sort that puts a hit before the earlier hits of the same key.
RECURSIVE InsertDescFirst(_, _, _)
InsertDescFirst(sorted, hit, key) ==
    IF sorted = <<>> THEN <<hit>>
    ELSE IF Head(sorted)[key] > hit[key]
         THEN <<Head(sorted)>> \o InsertDescFirst(Tail(sorted), hit, key)
         ELSE <<hit>> \o sorted

RECURSIVE SortDescFromUnstable(_, _, _)
SortDescFromUnstable(sorted, rest, key) ==
    IF rest = <<>> THEN sorted
    ELSE SortDescFromUnstable(InsertDescFirst(sorted, Head(rest), key), Tail(rest), key)

SortDescUnstable(hits, key) == SortDescFromUnstable(<<>>, hits, key)

\* Variant: no sort.
SortDescNone(hits, key) == hits

SortDesc(hits, key) == SortDescFrom(<<>>, hits, key)

\* The decrement of the relaxation loop and the length of the fallback.
RelaxStep == Literal(10)

TopK == 5

\* Variant: the loop relaxes the embedding threshold with the final one.
RECURSIVE RelaxLoopBoth(_, _, _, _, _, _)
RelaxLoopBoth(hits, query_has_color, query_has_plate, clip_min, current_final_min, passes) ==
    IF ~(current_final_min >= 0) THEN passes
    ELSE LET filtered == FilterHits(hits, query_has_color, query_has_plate,
                                    Min(clip_min, current_final_min), current_final_min)
             now == Append(passes, [final_min |-> current_final_min, kept |-> filtered])
         IN  IF filtered # <<>> THEN now
             ELSE RelaxLoopBoth(hits, query_has_color, query_has_plate, clip_min,
                                FloatSub(current_final_min, RelaxStep), now)

\* The relaxation loop: the passes made (threshold, kept hits), the last one
\* non-empty if the loop returned.
RECURSIVE RelaxLoop(_, _, _, _, _, _)
RelaxLoop(hits, query_has_color, query_has_plate, clip_min, current_final_min, passes) ==
    IF ~(current_final_min >= 0) THEN passes
    ELSE LET filtered == FilterHits(hits, query_has_color, query_has_plate,
                                    clip_min, current_final_min)
             now == Append(passes, [final_min |-> current_final_min, kept |-> filtered])
         IN  IF filtered # <<>> THEN now
             ELSE RelaxLoop(hits, query_has_color, query_has_plate, clip_min,
                            FloatSub(current_final_min, RelaxStep), now)

\* The filter at the caller's final_min and, if it keeps nothing, the loop.
FilterPasses(hits, query_has_color, query_has_plate, clip_min, final_min) ==
    LET filtered == FilterHits(hits, query_has_color, query_has_plate, clip_min, final_min)
        pass1 == <<[final_min |-> final_min, kept |-> filtered]>>
    IN  IF filtered # <<>> THEN pass1
        ELSE RelaxLoop(hits, query_has_color, query_has_plate, clip_min,
                       FloatSub(final_min, RelaxStep), pass1)

\* The result of a call: what it returned or raised, and what it did on the way
\* (the fetches issued, the scored hits, the filter passes made).
Outcome(status, parsed, fetches, scored, passes, path, result) ==
    [status |-> status, parsed |-> parsed, fetches |-> fetches, scored |-> scored,
     passes |-> passes, path |-> path, result |-> result]

QueryHasColor(parsed) ==
    parsed.color # NoneStr \/ parsed.upper_color # NoneStr \/ parsed.lower_color # NoneStr

QueryHasPlate(parsed) == parsed.plate # <<>>

\* Variant: without the fallback, the last filtered list is returned as it is.
SearchFilteredOnly(parsed, fetch, hits, passes) ==
    Outcome("returned", parsed, <<fetch>>, hits, passes,
            IF Len(passes) = 1 THEN "filtered" ELSE "relaxed",
            SortDesc(passes[Len(passes)].kept, "final_score"))

\* search_by_text from the first filter on: what is returned.
SearchFiltered(parsed, fetch, hits, passes) ==
    LET kept == passes[Len(passes)].kept
    IN  IF kept # <<>>
        THEN Outcome("returned", parsed, <<fetch>>, hits, passes,
                     IF Len(passes) = 1 THEN "filtered" ELSE "relaxed",
                     SortDesc(kept, "final_score"))
        ELSE IF hits = <<>>
        THEN Outcome("returned", parsed, <<fetch>>, hits, passes, "empty", <<>>)
        ELSE Outcome("returned", parsed, <<fetch>>, hits, passes, "fallback",
                     Limit(SortDesc(hits, "clip_score"), TopK))

\* search_by_text once the candidates are scored (or scoring has raised).
SearchScored(parsed, fetch, scored, clip_min_pure, final_min) ==
    IF ~scored.ok
    THEN Outcome("ValueError: Vectors must have the same length",
                 parsed, <<fetch>>, <<>>, <<>>, "raised", <<>>)
    ELSE SearchFiltered(parsed, fetch, scored.hits,
                        FilterPasses(scored.hits, QueryHasColor(parsed),
                                     QueryHasPlate(parsed), clip_min_pure, final_min))

\* The one fetch of search_by_text, chosen by the parsed type.
FetchCandidates(db, parsed) ==
    IF parsed.type = NoneStr THEN FetchFrameCandidates(db)
    ELSE FetchObjectCandidates(db, parsed.type)

\* search_by_text once embed_text has returned or raised.
SearchEmbedded(db, parsed, query_vector, clip_min_pure, final_min) ==
    IF ~query_vector.ok
    THEN Outcome("ValueError: Text for embedding must be non-empty",
                 parsed, <<>>, <<>>, <<>>, "raised", <<>>)
    ELSE SearchScored(parsed,
                      IF parsed.type = NoneStr THEN "frames" ELSE parsed.type,
                      ScoreCandidates(parsed, query_vector.v, FetchCandidates(db, parsed)),
                      clip_min_pure, final_min)

\* search_by_text once the query is parsed.
SearchParsed(db, parsed, clip_min_pure, final_min, latents) ==
    SearchEmbedded(db, parsed, EmbedText(parsed.cleaned_text, latents),
                   clip_min_pure, final_min)

\* search_by_text(db, text, clip_min_pure, final_min); latents is what the
\* embedding model returns for the cleaned text.
SearchByText(db, text, clip_min_pure, final_min, latents) ==
    SearchParsed(db, ParseQuery(text), clip_min_pure, final_min, latents)

(***************************************************************************)
(* The state: the stored rows, and the call in progress with its outcome.  *)
(***************************************************************************)
VARIABLES db, last

vars == <<db, last>>

Row(entity, vector, object_type, track_id, color_hsv, license_plate, upper, lower) ==
    [entity |-> entity, vector |-> vector, object_type |-> object_type,
     track_id |-> track_id, color_hsv |-> color_hsv, license_plate |-> license_plate,
     upper_color_hsv |-> upper, lower_color_hsv |-> lower]

FrameRow(vector) == Row("FRAME", vector, NoneStr, 0, Null, Null, Null, Null)

TransportRow(vector, color_hsv, license_plate) ==
    Row("OBJECT", vector, "TRANSPORT", 7, color_hsv, license_plate, Null, Null)

PersonRow(vector, upper, lower) ==
    Row("OBJECT", vector, "PERSON", 0, Null, Null, upper, lower)

HsvText(h, s, v) == Text(<<Num(h), Num(s), Num(v)>>)

\* The rows a store is built from: frames and objects with vectors at several
\* angles to the query, a vector that does not parse, a vector of another
\* length, HSV texts that are well-formed, malformed, empty or NULL, plates
\* that are equal to the query's, close to it, or NULL.
Rows ==
    { FrameRow(JsonVector(<<1, 0>>)),
      FrameRow(JsonVector(<<-1, 0>>)),
      FrameRow(BadVector),
      FrameRow(JsonVector(<<1>>)),
      TransportRow(JsonVector(<<3, 4>>), HsvText(0, 0, 5),
                   Text(<<"A", "1", "2", "3", "B", "C", "7", "7">>)),
      TransportRow(JsonVector(<<-5, 12>>), HsvText(0, 0, 49), Null),
      TransportRow(JsonVector(<<7, 24>>), HsvText(0, 0, 49), Null),
      TransportRow(BadVector, HsvText(0, 0, 5), Null),
      TransportRow(JsonVector(<<1, 0>>), Text(<<Num(0), Junk, Num(5)>>),
                   Text(<<"A", "1", "2", "3", "B", "C", "7", "8">>)),
      PersonRow(JsonVector(<<3, 4>>), HsvText(0, 80, 60), Text(<<>>)) }

\* The rows of the long stores: frames only.
TopKRows ==
    { FrameRow(JsonVector(<<1, 0>>)),
      FrameRow(JsonVector(<<-1, 0>>)),
      FrameRow(JsonVector(<<7, 24>>)) }

MaxRows == 3

MaxTopKRows == 6

Texts ==
    { <<>>,
      <<"a123bc77">>,
      <<"street">>,
      <<"black", "car">>,
      <<"a123bc77", "black", "car">>,
      <<"man", "red", "kurtka">> }

TopKTexts == { <<"street">>, <<"red", "street">>, <<"a123bc77", "street">> }

\* (clip_min_pure, final_min) in hundredths; (30, 30) are the defaults.
Thresholds == { <<30, 30>>, <<0, 30>>, <<0, 40>>, <<0, 20>> }

\* What the embedding model may return for a text.
QueryVectors == { <<1, 0>>, <<0, 1>> }

NoCall == [op |-> "none"]

Init == db = <<>> /\ last = NoCall

\* The vectorization pipeline stores one more row.
Insert(row) ==
    /\ last = NoCall
    /\ Len(db) < MaxRows
    /\ db' = Append(db, row)
    /\ last' = NoCall

InsertTopK(row) ==
    /\ last = NoCall
    /\ Len(db) < MaxTopKRows
    /\ db' = Append(db, row)
    /\ last' = NoCall

\* One call of search_by_text.
Search(text, clip_min_pure, final_min, latents) ==
    /\ last = NoCall
    /\ last' = [op |-> "search", text |-> text, clip_min_pure |-> clip_min_pure,
                final_min |-> final_min, latents |-> latents,
                out |-> SearchByText(db, text, clip_min_pure, final_min, latents)]
    /\ UNCHANGED db

\* The caller has taken the result of the call.
Return ==
    /\ last # NoCall
    /\ last' = NoCall
    /\ UNCHANGED db

Next ==
    \/ \E row \in Rows : Insert(row)
    \/ Return
    \/ \E text \in Texts, th \in Thresholds, latents \in QueryVectors :
          Search(text, Literal(th[1]), Literal(th[2]), latents)

Spec == Init /\ [][Next]_vars

NextTopK ==
    \/ \E row \in TopKRows : InsertTopK(row)
    \/ Return
    \/ \E text \in TopKTexts, th \in Thresholds, latents \in QueryVectors :
          Search(text, Literal(th[1]), Literal(th[2]), latents)

SpecTopK == Init /\ [][NextTopK]_vars

(***************************************************************************)
(* parse_query alone, applied to every text of a few tokens.               *)
(***************************************************************************)
Words ==
    { "man", "woman", "car", "cars", "truck", "black", "red", "pink",
      "kurtka", "shtany", "street", "near", "a123bc77", "cyr:a123bc77" }

\* The words of the long texts.
LongWords == { "man", "red", "black", "kurtka", "shtany", "near", "a123bc77" }

MaxTokens == 3

MaxLongTokens == 5

\* The normalized texts of at most n tokens over words.
TextsUpTo(words, n) == UNION { [1..k -> words] : k \in 0..n }

\* One call of parse_query.
Parse(tokens) ==
    /\ last = NoCall
    /\ last' = [op |-> "parse", text |-> tokens, out |-> ParseQuery(tokens)]
    /\ UNCHANGED db

\* A call is made only when none is pending; the texts are drawn then.
NextParse ==
    \/ /\ last = NoCall
       /\ \E tokens \in TextsUpTo(Words, MaxTokens) : Parse(tokens)
    \/ Return

SpecParse == Init /\ [][NextParse]_vars

NextParseLong ==
    \/ /\ last = NoCall
       /\ \E tokens \in TextsUpTo(LongWords, MaxLongTokens) : Parse(tokens)
    \/ Return

SpecParseLong == Init /\ [][NextParseLong]_vars

(***************************************************************************)
(* Stores of objects with colour attributes, searched by colour.           *)
(***************************************************************************)
\* Persons whose upper and lower HSV texts are both well-formed, one of them,
\* or neither; vehicles with and without an HSV text.
ColourRows ==
    { PersonRow(JsonVector(<<3, 4>>), HsvText(0, 80, 60), HsvText(0, 0, 5)),
      PersonRow(JsonVector(<<3, 4>>), HsvText(25, 80, 60), HsvText(0, 0, 30)),
      PersonRow(JsonVector(<<3, 4>>), Text(<<Num(0), Junk, Num(5)>>), HsvText(0, 0, 5)),
      PersonRow(JsonVector(<<3, 4>>), HsvText(0, 80, 60), Null),
      PersonRow(JsonVector(<<3, 4>>), Null, Text(<<>>)),
      TransportRow(JsonVector(<<3, 4>>), HsvText(0, 0, 5), Null),
      TransportRow(JsonVector(<<3, 4>>), Null, Null) }

MaxColourRows == 2

\* Queries for a person with an upper and a lower colour, with one of them,
\* with a colour and no garment, with no colour; for a vehicle with and
\* without a colour.
ColourTexts ==
    { <<"man", "red", "kurtka", "black", "shtany">>,
      <<"man", "red", "kurtka">>,
      <<"man", "black", "shtany">>,
      <<"man", "pink", "kurtka", "black", "shtany">>,
      <<"man", "red">>,
      <<"man">>,
      <<"black", "car">>,
      <<"car">> }

InsertColour(row) ==
    /\ last = NoCall
    /\ Len(db) < MaxColourRows
    /\ db' = Append(db, row)
    /\ last' = NoCall

NextColour ==
    \/ \E row \in ColourRows : InsertColour(row)
    \/ Return
    \/ \E text \in ColourTexts : Search(text, Literal(0), Literal(30), <<1, 0>>)

SpecColour == Init /\ [][NextColour]_vars

(***************************************************************************)
(* compute_color_score and _compute_plate_score alone.                     *)
(***************************************************************************)
\* Colour names: the supported ones, one the parser knows but the scorer does
\* not, and one neither knows.
ColorNames == SUPPORTED_COLORS \cup {"pink", "teal"}

\* h in degrees, s and v in hundredths, some outside their ranges.
Hues == {-30, 0, 10, 25, 40, 120, 220, 275, 350, 360, 400}

Saturations == {-10, 0, 5, 20, 45, 50, 100, 150}

Values == {-10, 0, 10, 12, 30, 45, 60, 85, 100, 150}

\* Plate texts: a plate in Latin letters, the same in Cyrillic look-alikes and
\* lower case apart, one that differs in a character, short ones, one without
\* any plate character, the empty text.
PlateTexts ==
    { <<"A", "1", "2", "3", "B", "C", "7", "7">>,
      <<"cyr:A", "1", "2", "3", "cyr:B", "cyr:C", "7", "7">>,
      <<"A", "1", "2", "3", "B", "C", "7", "8">>,
      <<"A", " ", "1">>,
      <<"A">>,
      <<"X", "9">>,
      <<"-", "D", "cyr:D">>,
      <<>> }

StoredPlates == { Text(p) : p \in PlateTexts } \cup {Null}

\* One call of compute_color_score.
ColorScore(color, h, s, v) ==
    /\ last = NoCall
    /\ last' = [op |-> "color", color |-> color, h |-> h, s |-> s, v |-> v,
                out |-> ComputeColorScore(color, h, s, v)]
    /\ UNCHANGED db

\* One call of _compute_plate_score.
PlateScore(query_plate, db_plate) ==
    /\ last = NoCall
    /\ last' = [op |-> "plate", query_plate |-> query_plate, db_plate |-> db_plate,
                out |-> ComputePlateScore(query_plate, db_plate)]
    /\ UNCHANGED db

NextScores ==
    \/ /\ last = NoCall
       /\ \E color \in ColorNames, h \in Hues, s \in Saturations, v \in Values :
             ColorScore(color, h, s, v)
    \/ /\ last = NoCall
       /\ \E query_plate \in PlateTexts, db_plate \in StoredPlates :
             PlateScore(query_plate, db_plate)
    \/ Return

SpecScores == Init /\ [][NextScores]_vars

(***************************************************************************)
(* range_diff.py: the requested ranges that no vectorized period covers.   *)
(* An instant is a number; an ISO text is an instant written with 'T' or   *)
(* with a space between date and time.                                     *)
(***************************************************************************)
IsoText(t, sep) == [t |-> t, sep |-> sep]

\* datetime.fromisoformat and datetime.isoformat
FromIsoFormat(text) == text.t

IsoFormat(t) == IsoText(t, "T")

\* A requested range, a returned range, a stored period: two ISO texts.
Range(start_at, end_at) == [start_at |-> start_at, end_at |-> end_at]

\* existing_ranges.sort(key = start): stable.
RECURSIVE InsertByStart(_, _)
InsertByStart(sorted, r) ==
    IF sorted = <<>> THEN <<r>>
    ELSE IF Head(sorted)[1] <= r[1]
         THEN <<Head(sorted)>> \o InsertByStart(Tail(sorted), r)
         ELSE <<r>> \o sorted

RECURSIVE SortByStart(_, _)
SortByStart(sorted, rest) ==
    IF rest = <<>> THEN sorted
    ELSE SortByStart(InsertByStart(sorted, Head(rest)), Tail(rest))

\* Variant: the pairs in the order the periods are stored in.
ExistingRangesUnsorted(existing_periods) ==
    [i \in 1..Len(existing_periods) |->
        <<FromIsoFormat(existing_periods[i].start_at),
          FromIsoFormat(existing_periods[i].end_at)>>]

\* The (start, end) pairs of the existing periods, sorted by start.
ExistingRanges(existing_periods) ==
    SortByStart(<<>>, [i \in 1..Len(existing_periods) |->
                          <<FromIsoFormat(existing_periods[i].start_at),
                            FromIsoFormat(existing_periods[i].end_at)>>])

\* The inner loop of compute_missing_ranges, from the k-th existing range.
RECURSIVE SubtractLoop(_, _, _, _, _)
SubtractLoop(existing_ranges, k, current_start, req_end, missing) ==
    IF k > Len(existing_ranges)
    THEN [current_start |-> current_start, missing |-> missing]
    ELSE LET ex_start == existing_ranges[k][1]
             ex_end   == existing_ranges[k][2]
         IN  IF ex_end <= current_start
             THEN SubtractLoop(existing_ranges, k + 1, current_start, req_end, missing)
             ELSE IF ex_start >= req_end
             THEN [current_start |-> current_start, missing |-> missing]
             ELSE LET hole == IF ex_start > current_start
                              THEN Append(missing, Range(IsoFormat(current_start),
                                                         IsoFormat(ex_start)))
                              ELSE missing
                      moved == IF ex_end > current_start THEN ex_end ELSE current_start
                  IN  IF moved >= req_end
                      THEN [current_start |-> moved, missing |-> hole]
                      ELSE SubtractLoop(existing_ranges, k + 1, moved, req_end, hole)

\* One iteration of the outer loop: the missing parts of one requested range.
MissingOfItem(item, existing_ranges, missing) ==
    LET req_start == FromIsoFormat(item.start_at)
        req_end   == FromIsoFormat(item.end_at)
    IN  IF req_end <= req_start THEN missing
        ELSE LET r == SubtractLoop(existing_ranges, 1, req_start, req_end, missing)
             IN  IF r.current_start < req_end
                 THEN Append(r.missing, Range(IsoFormat(r.current_start), IsoFormat(req_end)))
                 ELSE r.missing

RECURSIVE MissingLoop(_, _, _)
MissingLoop(requested, existing_ranges, missing) ==
    IF requested = <<>> THEN missing
    ELSE MissingLoop(Tail(requested), existing_ranges,
                     MissingOfItem(Head(requested), existing_ranges, missing))

\* compute_missing_ranges
ComputeMissingRanges(requested, existing_periods) ==
    IF requested = <<>> THEN <<>>
    ELSE MissingLoop(requested, ExistingRanges(existing_periods), <<>>)

(***************************************************************************)
(* compute_missing_ranges alone, and followed by the storing of the        *)
(* ranges it returned as periods.                                          *)
(***************************************************************************)
Instants == 0..4

\* The stored periods: start before end, as the use case writes them.
Periods ==
    { Range(IsoFormat(p[1]), IsoFormat(p[2])) :
        p \in { q \in Instants \X Instants : q[1] < q[2] } }

\* The requests: none, one range between any two instants, one written with
\* a space, or two ranges with start before end.
Requests ==
    {<<>>} \cup { <<Range(IsoText(s, "T"), IsoText(e, "T"))>> : s, e \in Instants }
           \cup { <<Range(IsoText(0, " "), IsoText(2, " "))>> }
           \cup { <<a, b>> : a \in Periods, b \in Periods }

MaxPeriods == 2

\* Variant: only the first range becomes a period.
NewPeriodsFirst(missing_ranges) ==
    IF missing_ranges = <<>> THEN <<>> ELSE <<missing_ranges[1]>>

\* The periods the use case builds from the missing ranges, one for each.
NewPeriods(missing_ranges) ==
    [i \in 1..Len(missing_ranges) |->
        Range(missing_ranges[i].start_at, missing_ranges[i].end_at)]

\* One call of compute_missing_ranges, and a second one with the same request
\* once the returned ranges are periods too.
Missing(requested, existing_periods) ==
    /\ last = NoCall
    /\ LET out == ComputeMissingRanges(requested, existing_periods)
       IN  last' = [op |-> "missing", requested |-> requested,
                    existing_periods |-> existing_periods,
                    out |-> out,
                    again |-> ComputeMissingRanges(requested,
                                                   existing_periods \o NewPeriods(out))]
    /\ UNCHANGED db

NextRanges ==
    \/ /\ last = NoCall
       /\ \E requested \in Requests,
             existing_periods \in TextsUpTo(Periods, MaxPeriods) :
             Missing(requested, existing_periods)
    \/ Return

SpecRanges == Init /\ [][NextRanges]_vars

(***************************************************************************)
(* process_video_fragment.py and what it calls.  db is the sequence of the *)
(* rows of sources, vectorized_periods and frames of one source_id; a      *)
(* frames row stands for the frame, the objects and the embeddings stored  *)
(* for one second of video.                                                *)
(***************************************************************************)
SourceRow == [table |-> "sources"]

PeriodRow(period) ==
    [table |-> "vectorized_periods", start_at |-> period.start_at, end_at |-> period.end_at]

RowsOf(rows, table) == SelectSeq(rows, LAMBDA row : row.table = table)

\* SourcePostgresRepository.find_by_source_id: None (the empty sequence) or
\* the source (the sequence of it).
FindBySourceId(rows) ==
    IF RowsOf(rows, "sources") = <<>> THEN <<>> ELSE <<RowsOf(rows, "sources")[1]>>

\* ORDER BY start_at, and sorted(..., key = start_at).
RECURSIVE InsertByStartAt(_, _)
InsertByStartAt(sorted, period) ==
    IF sorted = <<>> THEN <<period>>
    ELSE IF Head(sorted).start_at.t <= period.start_at.t
         THEN <<Head(sorted)>> \o InsertByStartAt(Tail(sorted), period)
         ELSE <<period>> \o sorted

RECURSIVE OrderByStartAt(_, _)
OrderByStartAt(sorted, rest) ==
    IF rest = <<>> THEN sorted
    ELSE OrderByStartAt(InsertByStartAt(sorted, Head(rest)), Tail(rest))

\* VectorizedPeriodPostgresRepository.list_for_source
ListForSource(rows) ==
    LET stored == RowsOf(rows, "vectorized_periods")
    IN  OrderByStartAt(<<>>, [i \in 1..Len(stored) |->
                                Range(stored[i].start_at, stored[i].end_at)])

\* VectorizedPeriodPostgresRepository.add_many: ON CONFLICT DO NOTHING.
RECURSIVE AddMany(_, _)
AddMany(rows, periods) ==
    IF periods = <<>> THEN rows
    ELSE AddMany(IF \E i \in 1..Len(rows) : rows[i] = PeriodRow(Head(periods))
                 THEN rows ELSE Append(rows, PeriodRow(Head(periods))),
                 Tail(periods))

\* build_video_url: the interval the URL asks the media server for.
BuildVideoUrl(start_at, end_at) == [start_at |-> start_at, end_at |-> end_at]

\* _build_time_mapper_from_ranges raises for a range with end <= start.
TimeMapperBuilt(ranges) ==
    \A i \in 1..Len(ranges) :
        FromIsoFormat(ranges[i].end_at) > FromIsoFormat(ranges[i].start_at)

\* FrameTimeMapper.map_to_datetime: the ranges are taken one after the other;
\* past their total duration, the end of the last one.
RECURSIVE MapToDatetime(_, _)
MapToDatetime(ranges, fragment_sec) ==
    LET start_at == FromIsoFormat(Head(ranges).start_at)
        end_at   == FromIsoFormat(Head(ranges).end_at)
    IN  IF fragment_sec < end_at - start_at THEN start_at + fragment_sec
        ELSE IF Len(ranges) = 1 THEN end_at
        ELSE MapToDatetime(Tail(ranges), fragment_sec - (end_at - start_at))

\* The frames of the video the URL gives, one for each second of its
\* interval: the instant of the source it shows, and the time it is stored at.
VideoFrames(url, ranges) ==
    [k \in 1..(FromIsoFormat(url.end_at) - FromIsoFormat(url.start_at)) |->
        [table |-> "frames", instant |-> FromIsoFormat(url.start_at) + k - 1,
         at |-> MapToDatetime(ranges, k - 1)]]

\* process_video: the frames it stores, or the error it raises.  pipeline
\* tells whether the video can be opened.
ProcessVideo(url, ranges, pipeline) ==
    IF ~TimeMapperBuilt(ranges)
    THEN [ok |-> FALSE, frames |-> <<>>,
          error |-> "ValueError: Range end_at must be greater than start_at"]
    ELSE IF pipeline # "ok"
    THEN [ok |-> FALSE, frames |-> <<>>, error |-> "pipeline error"]
    ELSE [ok |-> TRUE, error |-> NoneStr, frames |-> VideoFrames(url, ranges)]

\* What a call of the use case did: returned or raised, the rows it left, the
\* missing ranges it computed, whether it called process_video and whether
\* that returned, the frames process_video stored.
UsecaseOutcome(status, error, rows, missing, called, processed, frames) ==
    [status |-> status, error |-> error, db |-> rows, missing |-> missing,
     called |-> called, processed |-> processed, frames |-> frames]

\* Variant: the periods are saved whether process_video returned or raised.
UsecaseProcessedAlways(rows, missing_ranges, run) ==
    UsecaseOutcome(IF run.ok THEN "returned" ELSE "raised", run.error,
                   AddMany(rows \o run.frames, NewPeriods(missing_ranges)),
                   missing_ranges, TRUE, run.ok, run.frames)

\* The use case from process_video's return on (steps 5 and 6).
UsecaseProcessed(rows, missing_ranges, run) ==
    IF ~run.ok
    THEN UsecaseOutcome("raised", run.error, rows, missing_ranges, TRUE, FALSE, <<>>)
    ELSE UsecaseOutcome("returned", NoneStr,
                        AddMany(rows \o run.frames, NewPeriods(missing_ranges)),
                        missing_ranges, TRUE, TRUE, run.frames)

\* The use case from the missing ranges on (steps 3 to 6): process_video is
\* given the URL of the overall interval, from the start of the first missing
\* range to the end of the last in the order of their starts, and the
\* requested ranges.
UsecaseWithMissing(rows, ranges, missing_ranges, pipeline) ==
    IF missing_ranges = <<>>
    THEN UsecaseOutcome("returned", NoneStr, rows, missing_ranges, FALSE, FALSE, <<>>)
    ELSE UsecaseProcessed(rows, missing_ranges,
                          ProcessVideo(
                              BuildVideoUrl(
                                  OrderByStartAt(<<>>, missing_ranges)[1].start_at,
                                  OrderByStartAt(<<>>, missing_ranges)[Len(missing_ranges)].end_at),
                              ranges, pipeline))

\* The use case once the source is looked up (steps 1 to 3).
UsecaseWithSource(rows, existing_source, ranges, pipeline) ==
    UsecaseWithMissing(IF existing_source = <<>> THEN Append(rows, SourceRow) ELSE rows,
                       ranges, ComputeMissingRanges(ranges, ListForSource(rows)), pipeline)

\* process_video_fragment_usecase(source_id, source_type_id, ranges)
ProcessVideoFragmentUsecase(rows, ranges, pipeline) ==
    UsecaseWithSource(rows, FindBySourceId(rows), ranges, pipeline)

\* The requests made of the use case: one range of any kind, and the two
\* ranges around an instant, in both orders.
VectorizeRequests ==
    { <<Range(IsoText(s, "T"), IsoText(e, "T"))>> : s, e \in 0..3 }
    \cup { <<Range(IsoText(0, "T"), IsoText(1, "T")), Range(IsoText(2, "T"), IsoText(3, "T"))>>,
           <<Range(IsoText(2, "T"), IsoText(3, "T")), Range(IsoText(0, "T"), IsoText(1, "T"))>>,
           <<Range(IsoText(0, "T"), IsoText(2, "T")), Range(IsoText(1, "T"), IsoText(1, "T"))>> }

MaxStored == 5

\* One call of the use case.
Vectorize(ranges, pipeline) ==
    /\ last = NoCall
    /\ Len(db) < MaxStored
    /\ last' = [op |-> "vectorize", ranges |-> ranges, pipeline |-> pipeline,
                before |-> db,
                out |-> ProcessVideoFragmentUsecase(db, ranges, pipeline)]
    /\ db' = ProcessVideoFragmentUsecase(db, ranges, pipeline).db

NextVectorize ==
    \/ /\ last = NoCall
       /\ \E ranges \in VectorizeRequests, pipeline \in {"ok", "raises"} :
             Vectorize(ranges, pipeline)
    \/ Return

SpecVectorize == Init /\ [][NextVectorize]_vars

(***************************************************************************)
(* search_job_runner.py, search_job_worker.py, vectorization_job_runner.py.*)
(* db is the sequence of the rows of search_jobs and vectorization_jobs; a *)
(* row's position is the job id.  With the columns status, progress and    *)
(* error, a row carries what the job's work will do (outcome: it raises,   *)
(* or it ends with hits or without) and the positions of the runner tasks  *)
(* spawned for the job.                                                    *)
(***************************************************************************)
\* create_job and create_vectorization_job: the row inserted, and the runner
\* task spawned.  The outcome is what the job's work will do: search_by_text,
\* or process_video_fragment_usecase, raises ("raises") or returns, a search
\* with hits ("hits") or without ("empty").
NewJob(kind, outcome) ==
    [kind |-> kind, outcome |-> outcome, status |-> "PENDING", progress |-> 0,
     error |-> NoneStr, runners |-> <<"spawned">>]

\* SearchJobPostgresRepository.update_status, and the vectorization one.
UpdateStatus(rows, job_id, status, error) ==
    [rows EXCEPT ![job_id].status = status, ![job_id].error = error]

\* SearchJobPostgresRepository.update_progress, and the vectorization one.
UpdateProgress(rows, job_id, value) ==
    [rows EXCEPT ![job_id].progress = value]

\* The runner task r of the job moves to the position pc.
Goes(rows, job_id, r, pc) == [rows EXCEPT ![job_id].runners[r] = pc]

\* _run_job from one await on the table to the next.
RunJob(rows, job_id, r) ==
    LET job == rows[job_id]
        pc  == job.runners[r]
    IN  CASE pc = "spawned" -> Goes(rows, job_id, r, "found")
          [] pc = "found" ->
                Goes(UpdateStatus(rows, job_id, "RUNNING", NoneStr), job_id, r, "running")
          [] pc = "running" ->
                Goes(UpdateProgress(rows, job_id, 1), job_id, r, "search")
          [] pc = "search" ->
                IF job.outcome = "raises" THEN Goes(rows, job_id, r, "except")
                ELSE Goes(UpdateProgress(rows, job_id, 10), job_id, r, "saved")
          [] pc = "saved" ->
                Goes(UpdateProgress(rows, job_id, 30), job_id, r,
                     IF job.outcome = "hits" THEN "snapshot" ELSE "finish")
          [] pc = "snapshot" ->
                Goes(UpdateProgress(rows, job_id, 99), job_id, r, "finish")
          [] pc = "finish" ->
                Goes(UpdateProgress(rows, job_id, 100), job_id, r, "done")
          [] pc = "done" ->
                Goes(UpdateStatus(rows, job_id, "DONE", NoneStr), job_id, r, "returned")
          [] pc = "except" ->
                Goes(UpdateStatus(rows, job_id, "FAILED", "error"), job_id, r, "raised")

\* _run_vectorization_job from one await on the table to the next.
RunVectorizationJob(rows, job_id, r) ==
    LET job == rows[job_id]
        pc  == job.runners[r]
    IN  CASE pc = "spawned" -> Goes(rows, job_id, r, "found")
          [] pc = "found" ->
                Goes(UpdateStatus(rows, job_id, "RUNNING", NoneStr), job_id, r, "running")
          [] pc = "running" ->
                Goes(UpdateProgress(rows, job_id, 1), job_id, r, "usecase")
          [] pc = "usecase" ->
                Goes(rows, job_id, r, IF job.outcome = "raises" THEN "except" ELSE "finish")
          [] pc = "finish" ->
                Goes(UpdateProgress(rows, job_id, 100), job_id, r, "done")
          [] pc = "done" ->
                Goes(UpdateStatus(rows, job_id, "DONE", NoneStr), job_id, r, "returned")
          [] pc = "except" ->
                Goes(UpdateStatus(rows, job_id, "FAILED", "error"), job_id, r, "raised")

MaxJobs == 2

MaxRunners == 2

\* create_job, create_vectorization_job: the row is inserted PENDING and the
\* runner task is spawned; the call returns the job id.
CreateJob(kind, outcome) ==
    /\ last = NoCall
    /\ Len(db) < MaxJobs
    /\ db' = Append(db, NewJob(kind, outcome))
    /\ last' = [op |-> "create_job", out |-> Len(db) + 1]

\* A runner task runs to its next await.
RunnerStep(job_id, r) ==
    /\ db[job_id].runners[r] \notin {"returned", "raised"}
    /\ db' = IF db[job_id].kind = "search" THEN RunJob(db, job_id, r)
             ELSE RunVectorizationJob(db, job_id, r)
    /\ UNCHANGED last

\* One round of the worker's loop: a runner task for every search job that is
\* PENDING.
WorkerSpawns(rows) ==
    [i \in 1..Len(rows) |->
        IF rows[i].kind = "search" /\ rows[i].status = "PENDING"
        THEN [rows[i] EXCEPT !.runners = Append(@, "spawned")]
        ELSE rows[i]]

\* The worker polls while it can spawn a runner for each PENDING search job.
WorkerPoll ==
    /\ \E i \in 1..Len(db) : db[i].kind = "search" /\ db[i].status = "PENDING"
    /\ \A i \in 1..Len(db) :
          db[i].kind = "search" /\ db[i].status = "PENDING"
              => Len(db[i].runners) < MaxRunners
    /\ db' = WorkerSpawns(db)
    /\ UNCHANGED last

NextJobs ==
    \/ /\ last = NoCall
       /\ \E kind \in {"search", "vectorization"}, outcome \in {"raises", "empty", "hits"} :
             CreateJob(kind, outcome)
    \/ \E job_id \in 1..Len(db) : \E r \in 1..Len(db[job_id].runners) : RunnerStep(job_id, r)
    \/ WorkerPoll
    \/ Return

SpecJobs == Init /\ [][NextJobs]_vars

(***************************************************************************)
(* Properties of search_by_text.  They are stated over the call in         *)
(* progress: its arguments, the store it ran against, and its outcome.     *)
(***************************************************************************)
Searched == last.op = "search"

Returned == Searched /\ last.out.status = "returned"

\* The rows the query selects, and among them those whose vector parses.
Selected(row, parsed) ==
    IF parsed.type = NoneStr THEN row.entity = "FRAME"
    ELSE row.entity = "OBJECT" /\ row.object_type = parsed.type

Usable(row) == ~row.vector.null /\ row.vector.json

CandidateIds(parsed) ==
    { i \in 1..Len(db) : Selected(db[i], parsed) /\ Usable(db[i]) }

OtherLength(parsed, latents) ==
    { i \in CandidateIds(parsed) : Len(db[i].vector.s) # Len(latents) }

\* The embedder was given a text and nothing stops the scoring.
Scorable ==
    /\ Searched
    /\ last.out.parsed.cleaned_text # <<>>
    /\ OtherLength(last.out.parsed, last.latents) = {}

\* The filtering predicate of the search, for a query and two thresholds.
Clears(hit, parsed, clip_min, final_min) ==
    /\ hit.clip_score >= clip_min
    /\ (parsed.color # NoneStr \/ parsed.upper_color # NoneStr \/ parsed.lower_color # NoneStr
           => hit.color_score > 0)
    /\ (parsed.plate # <<>> => hit.plate_score > 0)
    /\ hit.final_score >= final_min

Passing(hits, parsed, clip_min, final_min) ==
    SelectSeq(hits, LAMBDA hit : Clears(hit, parsed, clip_min, final_min))

Elements(seq) == { seq[i] : i \in 1..Len(seq) }

\* seq holds exactly the hits of from, each once, in descending order of key.
IsSortedFrom(seq, from, key) ==
    /\ Len(seq) = Len(from)
    /\ Elements(seq) = Elements(from)
    /\ \A i \in 1..(Len(seq) - 1) : seq[i][key] >= seq[i + 1][key]

\* The threshold of the k-th relaxation: k float subtractions of 0.10.
RECURSIVE Relaxed(_, _)
Relaxed(final_min, k) ==
    IF k = 0 THEN final_min ELSE FloatSub(Relaxed(final_min, k - 1), RelaxStep)

\* C1 as stated: whenever parsing and embedding succeed, the search returns a
\* list, which is empty if and only if no candidate was there to score.
C1_AsStated ==
    Searched /\ last.out.parsed.cleaned_text # <<>>
        => /\ last.out.status = "returned"
           /\ (last.out.result = <<>> <=> CandidateIds(last.out.parsed) = {})

\* C1 (amended): whenever parsing and embedding succeed and no fetched
\* candidate's vector differs in length from the query vector, the search
\* returns a list; every fetched candidate is scored; and the list is empty if
\* and only if no candidate was scored, whatever the thresholds and gates are.
C1_EmptyOnlyWithoutCandidates ==
    Scorable
        => /\ last.out.status = "returned"
           /\ Len(last.out.scored) = Cardinality(CandidateIds(last.out.parsed))
           /\ (last.out.result = <<>> <=> last.out.scored = <<>>)

\* A call with candidates none of which passes any filter, and a result.
C1_Witness ==
    /\ Scorable
    /\ last.out.scored # <<>>
    /\ \A k \in 1..Len(last.out.passes) : last.out.passes[k].kept = <<>>
    /\ last.out.result # <<>>

\* C2: if some scored candidate passes the filter at the caller's thresholds,
\* the result is exactly the passing candidates in descending final_score
\* order, after one filter pass: no relaxation, no fallback.
C2_DirectPath ==
    Returned
        => LET passing == Passing(last.out.scored, last.out.parsed,
                                  last.clip_min_pure, last.final_min)
           IN  passing # <<>>
                   => /\ IsSortedFrom(last.out.result, passing, "final_score")
                      /\ Len(last.out.passes) = 1
                      /\ last.out.passes[1].final_min = last.final_min
                      /\ last.out.path = "filtered"

\* A direct result of two hits that the sort reordered, a third hit left out.
C2_Witness ==
    /\ Returned
    /\ last.out.path = "filtered"
    /\ Len(last.out.result) = 2
    /\ Len(last.out.scored) = 3
    /\ last.out.result[1].final_score > last.out.result[2].final_score
    /\ last.out.result[1].frame_id > last.out.result[2].frame_id

\* C3: if nothing passes at the caller's final_min, the filter is applied again
\* at final_min - 0.10, final_min - 0.20, ... (float subtractions), in that
\* order and not below zero, with the embedding threshold and the colour and
\* plate gates unchanged; the passing set of the first threshold with a
\* non-empty one is returned in descending final_score order.  With
\* final_min = 0.30, a candidate that clears the filter at 0.10 makes the
\* result that relaxed set, not an empty list and not the fallback.
C3_Relaxation ==
    Returned /\ Passing(last.out.scored, last.out.parsed,
                        last.clip_min_pure, last.final_min) = <<>>
        => LET passes == last.out.passes
               n == Len(passes)
           IN  /\ \A k \in 1..n :
                     /\ passes[k].final_min = Relaxed(last.final_min, k - 1)
                     /\ passes[k].kept = Passing(last.out.scored, last.out.parsed,
                                                 last.clip_min_pure, passes[k].final_min)
                     /\ k > 1 => passes[k].final_min >= 0
                     /\ k < n => passes[k].kept = <<>>
               /\ passes[n].kept = <<>> => Relaxed(last.final_min, n) < 0
               /\ passes[n].kept # <<>>
                     => /\ last.out.path = "relaxed"
                        /\ IsSortedFrom(last.out.result, passes[n].kept, "final_score")
               /\ (/\ last.final_min = Literal(30)
                   /\ Passing(last.out.scored, last.out.parsed,
                              last.clip_min_pure, Literal(10)) # <<>>)
                     => /\ last.out.path = "relaxed"
                        /\ last.out.result # <<>>

\* A search at final_min = 0.30 that returns at the second relaxation, with a
\* hit that clears 0.10 and a hit that does not.
C3_Witness ==
    /\ Returned
    /\ last.final_min = Literal(30)
    /\ last.out.path = "relaxed"
    /\ Len(last.out.passes) = 3
    /\ last.out.result # <<>>
    /\ Len(last.out.result) < Len(last.out.scored)

\* No scored hit of the call passes at final_min, nor at any threshold reached
\* from it by subtracting 0.10 while the threshold is not below zero.
RECURSIVE NothingPasses(_, _)
NothingPasses(final_min, relaxing) ==
    IF relaxing /\ final_min < 0 THEN TRUE
    ELSE /\ Passing(last.out.scored, last.out.parsed, last.clip_min_pure, final_min) = <<>>
         /\ NothingPasses(FloatSub(final_min, RelaxStep), TRUE)

\* C4: if N >= 1 candidates were scored and none passes at the caller's
\* final_min or at any relaxed threshold, the result is min(5, N) hits, those
\* of highest clip_score, in descending clip_score order.
C4_Fallback ==
    Returned /\ last.out.scored # <<>> /\ NothingPasses(last.final_min, FALSE)
        => LET result == last.out.result
               scored == last.out.scored
           IN  /\ Len(result) = Min(5, Len(scored))
               /\ Elements(result) \subseteq Elements(scored)
               /\ Cardinality(Elements(result)) = Len(result)
               /\ \A i \in 1..(Len(result) - 1) :
                     result[i].clip_score >= result[i + 1].clip_score
               /\ \A hit \in Elements(scored) \ Elements(result) :
                     \A i \in 1..Len(result) : result[i].clip_score >= hit.clip_score

\* Six scored hits, none passing: five returned, the one of lowest clip_score
\* left out, the order not the stored one.
C4_Witness ==
    /\ Returned
    /\ Len(last.out.scored) = 6
    /\ Len(last.out.result) = 5
    /\ last.out.path = "fallback"
    /\ \E hit \in Elements(last.out.scored) \ Elements(last.out.result) :
          hit.clip_score < last.out.result[5].clip_score
    /\ last.out.result[1].frame_id > last.out.result[2].frame_id

\* C5: _filter_hits keeps a hit if and only if clip_score >= clip_min, the
\* query has no colour or color_score > 0, the query has no plate or
\* plate_score > 0, and final_score >= final_min; the kept hits are in their
\* input order, and the input list is left as it was (every pass of a call
\* filters the same scored list).
C5_FilterGates ==
    Returned
        => \A k \in 1..Len(last.out.passes) :
              LET kept == last.out.passes[k].kept
                  scored == last.out.scored
                  parsed == last.out.parsed
                  has_color == \/ parsed.color # NoneStr
                               \/ parsed.upper_color # NoneStr
                               \/ parsed.lower_color # NoneStr
                  has_plate == parsed.plate # <<>>
              IN  /\ \A i \in 1..Len(scored) :
                        (\E j \in 1..Len(kept) : kept[j] = scored[i])
                            <=> /\ scored[i].clip_score >= last.clip_min_pure
                                /\ has_color => scored[i].color_score > 0
                                /\ has_plate => scored[i].plate_score > 0
                                /\ scored[i].final_score >= last.out.passes[k].final_min
                  /\ \A j \in 1..Len(kept) : \E i \in 1..Len(scored) : kept[j] = scored[i]
                  /\ \A j \in 1..(Len(kept) - 1) : kept[j].frame_id < kept[j + 1].frame_id

\* A pass over three hits that keeps the first and the third; the second is
\* rejected by the colour gate alone.
C5_Witness ==
    /\ Returned
    /\ Len(last.out.scored) = 3
    /\ last.out.parsed.color # NoneStr
    /\ \E k \in 1..Len(last.out.passes) :
          /\ last.out.passes[k].kept = <<last.out.scored[1], last.out.scored[3]>>
          /\ last.out.scored[2].clip_score >= last.clip_min_pure
          /\ last.out.scored[2].final_score >= last.out.passes[k].final_min
          /\ last.out.scored[2].color_score = 0

\* C6: the final score of every hit is w_embed*clip + w_color*color +
\* w_plate*plate with the weights chosen by color_score > 0 and plate_score > 0
\* alone: (1, 0, 0), (0.6, 0.4, 0), (0.4, 0, 0.6), (0.4, 0.2, 0.4); with both
\* scores 0 the final score is the clip score.
C6_WeightTable ==
    Returned
        => \A i \in 1..Len(last.out.scored) :
              LET hit == last.out.scored[i]
                  has_color == hit.color_score > 0
                  has_plate == hit.plate_score > 0
              IN  /\ ~has_color /\ ~has_plate => hit.final_score = hit.clip_score
                  /\ has_color /\ ~has_plate
                        => 10 * hit.final_score = 6 * hit.clip_score + 4 * hit.color_score
                  /\ ~has_color /\ has_plate
                        => 10 * hit.final_score = 4 * hit.clip_score + 6 * hit.plate_score
                  /\ has_color /\ has_plate
                        => 10 * hit.final_score
                              = 4 * hit.clip_score + 2 * hit.color_score + 4 * hit.plate_score

\* One call whose hits fall into three rows of the table: both signals, the
\* plate alone, the colour alone.
C6_Witness ==
    /\ Returned
    /\ \E i, j, k \in 1..Len(last.out.scored) :
          /\ last.out.scored[i].color_score > 0 /\ last.out.scored[i].plate_score > 0
          /\ last.out.scored[j].color_score = 0 /\ last.out.scored[j].plate_score > 0
          /\ last.out.scored[k].color_score > 0 /\ last.out.scored[k].plate_score = 0
          /\ last.out.scored[i].clip_score > 0
          /\ last.out.scored[i].clip_score < One

\* C7 as stated: the four scores of every hit lie in [0, 1].
C7_AsStated ==
    Returned
        => \A i \in 1..Len(last.out.result) :
              LET hit == last.out.result[i]
              IN  /\ 0 <= hit.final_score /\ hit.final_score <= One
                  /\ 0 <= hit.clip_score /\ hit.clip_score <= One
                  /\ 0 <= hit.color_score /\ hit.color_score <= One
                  /\ 0 <= hit.plate_score /\ hit.plate_score <= One

\* C7 (amended): every hit has color_score and plate_score in [0, 1] and
\* clip_score and final_score in [-1, 1]; the final score is not below the
\* smaller of the clip score and 0.
C7_ScoreRanges ==
    Returned
        => \A i \in 1..Len(last.out.scored) :
              LET hit == last.out.scored[i]
              IN  /\ 0 - One <= hit.final_score /\ hit.final_score <= One
                  /\ 0 - One <= hit.clip_score /\ hit.clip_score <= One
                  /\ 0 <= hit.color_score /\ hit.color_score <= One
                  /\ 0 <= hit.plate_score /\ hit.plate_score <= One
                  /\ hit.final_score >= Min(hit.clip_score, 0)

\* A returned hit with a colour match and a negative clip and final score,
\* next to a hit with an inexact plate match.
C7_Witness ==
    /\ Returned
    /\ \E i, j \in 1..Len(last.out.result) :
          /\ last.out.result[i].clip_score < 0
          /\ last.out.result[i].color_score > 0
          /\ last.out.result[i].final_score < 0
          /\ last.out.result[j].plate_score > 0
          /\ last.out.result[j].plate_score < One

\* C8 as stated: a candidate whose stored vector differs in length from the
\* query vector is left out of the scoring alone; the search returns the hits
\* of the other candidates.
C8_AsStated ==
    Searched /\ last.out.parsed.cleaned_text # <<>>
             /\ OtherLength(last.out.parsed, last.latents) # {}
        => /\ last.out.status = "returned"
           /\ { last.out.scored[i].frame_id : i \in 1..Len(last.out.scored) }
                 = CandidateIds(last.out.parsed) \ OtherLength(last.out.parsed, last.latents)

\* C8 (amended): a candidate whose stored vector differs in length from the
\* query vector makes search_by_text fail with the error of the similarity
\* function; the call returns no hits, those of the other candidates included.
C8_LengthMismatchAborts ==
    Searched /\ last.out.parsed.cleaned_text # <<>>
        => (OtherLength(last.out.parsed, last.latents) # {}
              <=> last.out.status = "ValueError: Vectors must have the same length")
           /\ (OtherLength(last.out.parsed, last.latents) # {}
                 => last.out.result = <<>> /\ last.out.path = "raised")

\* A failed call over candidates of which one has the query vector's length.
C8_Witness ==
    /\ Searched
    /\ last.out.status = "ValueError: Vectors must have the same length"
    /\ OtherLength(last.out.parsed, last.latents) # {}
    /\ CandidateIds(last.out.parsed) \ OtherLength(last.out.parsed, last.latents) # {}
    /\ last.out.result = <<>>

\* An HSV text _parse_hsv reads: three comma-separated numbers.
WellFormedHsv(col) ==
    /\ ~col.null
    /\ Len(col.s) = 3
    /\ \A i \in 1..3 : col.s[i].num

\* C9: a defect in the data of one stored row does not fail the search.  A
\* row whose vector text does not parse is not a candidate; a candidate whose
\* HSV attribute (for a person: each HSV attribute the query's colours are
\* compared with) is absent, empty or not three numbers has color_score 0; a
\* candidate without a stored plate has plate_score 0; these candidates are
\* scored and are hits of the search.
C9_PartialData ==
    Scorable
        => /\ last.out.status = "returned"
           /\ { last.out.scored[i].frame_id : i \in 1..Len(last.out.scored) }
                 = { i \in 1..Len(db) :
                       Selected(db[i], last.out.parsed) /\ Usable(db[i]) }
           /\ \A i \in 1..Len(last.out.scored) :
                 LET hit == last.out.scored[i]
                     row == db[hit.frame_id]
                 IN  /\ (row.object_type = "TRANSPORT" /\ ~WellFormedHsv(row.color_hsv))
                           => hit.color_score = 0
                     /\ (/\ row.object_type = "PERSON"
                         /\ last.out.parsed.upper_color # NoneStr
                               => ~WellFormedHsv(row.upper_color_hsv)
                         /\ last.out.parsed.lower_color # NoneStr
                               => ~WellFormedHsv(row.lower_color_hsv))
                           => hit.color_score = 0
                     /\ (row.license_plate.null \/ row.license_plate.s = <<>>)
                           => hit.plate_score = 0

\* A store with a row whose vector does not parse, a row with a malformed HSV
\* text and a row without a plate: the first is no hit, the other two are
\* returned with color_score 0 and plate_score 0.
C9_Witness ==
    /\ Returned
    /\ Len(db) = 3
    /\ last.out.parsed.color # NoneStr
    /\ last.out.parsed.plate # <<>>
    /\ \E i \in 1..Len(db) : Selected(db[i], last.out.parsed) /\ ~Usable(db[i])
    /\ \E i, j \in 1..Len(last.out.result) :
          /\ ~WellFormedHsv(db[last.out.result[i].frame_id].color_hsv)
          /\ last.out.result[i].color_score = 0
          /\ last.out.result[i].plate_score > 0
          /\ db[last.out.result[j].frame_id].license_plate.null
          /\ last.out.result[j].plate_score = 0
          /\ last.out.result[j].color_score > 0

\* C10: if the cleaned text of the query is empty (an empty or blank text, or
\* nothing but a licence plate), search_by_text fails before it fetches any
\* candidate, and has no hits.
C10_EmptyTextRejected ==
    Searched
        => /\ (last.text = <<>> \/ (Len(last.text) = 1 /\ last.text[1] \in PlateTokens))
                 => last.out.parsed.cleaned_text = <<>>
           /\ last.out.parsed.cleaned_text = <<>>
                 => /\ last.out.status = "ValueError: Text for embedding must be non-empty"
                    /\ last.out.fetches = <<>>
                    /\ last.out.scored = <<>>
                    /\ last.out.result = <<>>

\* A query of a plate alone, against a store with rows, rejected unfetched.
C10_Witness ==
    /\ Searched
    /\ last.text = <<"a123bc77">>
    /\ last.out.parsed.plate # <<>>
    /\ Len(db) = 3
    /\ last.out.status = "ValueError: Text for embedding must be non-empty"
    /\ last.out.fetches = <<>>

\* C11: search_by_text issues one fetch, chosen by the parsed type.  With no
\* type only frames are fetched, and every hit is a frame hit without object
\* id and track id, with color_score = plate_score = 0 and final_score =
\* clip_score; with type PERSON or TRANSPORT only objects of that type are
\* fetched, and every hit is an object hit.
C11_OneFetchByType ==
    Searched /\ last.out.parsed.cleaned_text # <<>>
        => LET parsed == last.out.parsed
               scored == last.out.scored
           IN  /\ Len(last.out.fetches) = 1
               /\ parsed.type = NoneStr
                     => /\ last.out.fetches[1] = "frames"
                        /\ \A i \in 1..Len(scored) :
                              /\ scored[i].target_type = "frame"
                              /\ db[scored[i].frame_id].entity = "FRAME"
                              /\ scored[i].object_id = 0
                              /\ scored[i].track_id = 0
                              /\ scored[i].color_score = 0
                              /\ scored[i].plate_score = 0
                              /\ scored[i].final_score = scored[i].clip_score
               /\ parsed.type # NoneStr
                     => /\ parsed.type \in {"PERSON", "TRANSPORT"}
                        /\ last.out.fetches[1] = parsed.type
                        /\ \A i \in 1..Len(scored) :
                              /\ scored[i].target_type = "object"
                              /\ db[scored[i].object_id].entity = "OBJECT"
                              /\ db[scored[i].object_id].object_type = parsed.type

\* A store with a frame, a person and a vehicle, all with usable vectors; a
\* query for a vehicle scores the vehicle alone.
C11_Witness ==
    /\ Returned
    /\ last.out.parsed.type = "TRANSPORT"
    /\ Len(last.out.scored) = 1
    /\ \E i, j, k \in 1..Len(db) :
          /\ db[i].entity = "FRAME" /\ Usable(db[i])
          /\ db[j].object_type = "PERSON" /\ Usable(db[j])
          /\ db[k].object_type = "TRANSPORT" /\ last.out.scored[1].object_id = k

(***************************************************************************)
(* Properties of parse_query, over the call in progress.                   *)
(***************************************************************************)
Parsed == last.op = "parse"

\* C12: the ParsedQuery of any text never has the generic colour together
\* with an upper or lower colour.
C12_GenericOrRegions ==
    Parsed
        => /\ (last.out.upper_color # NoneStr \/ last.out.lower_color # NoneStr)
                 => last.out.color = NoneStr
           /\ last.out.color # NoneStr
                 => last.out.upper_color = NoneStr /\ last.out.lower_color = NoneStr

\* A person query with two colours, one given to each garment, none generic.
C12_Witness ==
    /\ Parsed
    /\ last.out.type = "PERSON"
    /\ last.out.upper_color = "red"
    /\ last.out.lower_color = "black"
    /\ last.out.color = NoneStr

\* Some token of the text is one of the given words.
Occurs(text, words) == \E i \in 1..Len(text) : text[i] \in words

Indicator(b) == IF b THEN 1 ELSE 0

\* The person and transport keywords found in a text, as substrings: "man" is
\* found in "woman", "car" in "cars".
PersonCount(text) ==
    Indicator(Occurs(text, {"man", "woman"})) + Indicator(Occurs(text, {"woman"}))

TransportCount(text) ==
    Indicator(Occurs(text, {"car", "cars"})) + Indicator(Occurs(text, {"cars"}))
        + Indicator(Occurs(text, {"truck"}))

\* C13: the type is unset when the person and transport keyword counts of
\* the normalized text are both zero or equal, and otherwise the type of the
\* strictly higher count; "a123bc77 red truck" is a TRANSPORT query with
\* plate A123BC77 and colour red.
C13_TypeDetection ==
    Parsed
        => LET p == PersonCount(last.text)
               t == TransportCount(last.text)
           IN  /\ p = t => last.out.type = NoneStr
               /\ p > t => last.out.type = "PERSON"
               /\ t > p => last.out.type = "TRANSPORT"
               /\ last.text = <<"a123bc77", "red", "truck">>
                     => /\ last.out.type = "TRANSPORT"
                        /\ last.out.color = "red"
                        /\ last.out.plate = <<"A", "1", "2", "3", "B", "C", "7", "7">>

\* A text with keywords of both types, more of one than of the other.
C13_Witness ==
    /\ Parsed
    /\ PersonCount(last.text) = 2
    /\ TransportCount(last.text) = 1
    /\ last.out.type = "PERSON"

\* A text of one colour word and one transport word, in either order.
ColourAndTransportWord(text) ==
    /\ Len(text) = 2
    /\ \E i, j \in 1..2 :
          i # j /\ text[i] \in {"black", "red"} /\ text[j] \in {"car", "truck"}

\* C14 as stated: for a colour word and a transport word without a plate the
\* query is a TRANSPORT query with that generic colour and no plate, and its
\* cleaned text is the transport word alone.
C14_AsStated ==
    Parsed /\ ColourAndTransportWord(last.text)
        => /\ last.out.type = "TRANSPORT"
           /\ last.out.color \in {"black", "red"}
           /\ last.out.plate = <<>>
           /\ \A k \in 1..Len(last.out.cleaned_text) :
                 last.out.cleaned_text[k] \in {"car", "truck"}

\* C14 (amended): for a colour word and a transport word without a plate the
\* query is a TRANSPORT query with that generic colour and no plate, and its
\* cleaned text is the whole normalized text, colour word included.
C14_ColourStaysInCleanedText ==
    Parsed /\ ColourAndTransportWord(last.text)
        => /\ last.out.type = "TRANSPORT"
           /\ \E i \in 1..2 : last.out.color = last.text[i]
           /\ last.out.upper_color = NoneStr
           /\ last.out.lower_color = NoneStr
           /\ last.out.plate = <<>>
           /\ last.out.cleaned_text = last.text

\* The parse of "black car".
C14_Witness ==
    /\ Parsed
    /\ last.text = <<"black", "car">>
    /\ last.out.type = "TRANSPORT"
    /\ last.out.color = "black"
    /\ last.out.cleaned_text = <<"black", "car">>

(***************************************************************************)
(* Properties of the colour and plate scores.                              *)
(***************************************************************************)
\* C15: compute_color_score is 0 for a colour name outside the supported set
\* whatever h, s, v are; for a supported colour it is in [0, 1] for all h, s,
\* v, and an out-of-range input counts as the nearest end of its range.
C15_ColorScoreRange ==
    last.op = "color"
        => /\ last.color \notin {"red", "green", "blue", "yellow", "orange", "purple",
                                 "brown", "white", "gray", "black"}
                 => last.out = 0
           /\ 0 <= last.out /\ last.out <= One
           /\ last.out = ComputeColorScore(last.color,
                                           Max(0, Min(360, last.h)),
                                           Max(0, Min(100, last.s)),
                                           Max(0, Min(100, last.v)))

\* A supported colour scored with h, s and v all beyond their ranges, the
\* score strictly between 0 and 1.
C15_Witness ==
    /\ last.op = "color"
    /\ last.color = "red"
    /\ last.h > 360
    /\ last.s > 100
    /\ last.v > 100
    /\ last.out > 0
    /\ last.out < One

\* C16: the plate score is 0 when the query plate or the stored plate is
\* missing or normalizes to the empty text; 1 when the normalized texts are
\* equal (a plate in Cyrillic look-alikes and its Latin form); otherwise it is
\* the similarity ratio if that is at least 0.4, and 0 if not.  No score lies
\* strictly between 0 and 0.4.
C16_PlateScore ==
    last.op = "plate"
        => LET q == NormalizePlateText(last.query_plate)
               d == IF last.db_plate.null THEN <<>> ELSE NormalizePlateText(last.db_plate.s)
           IN  /\ (q = <<>> \/ d = <<>>) => last.out = 0
               /\ (q # <<>> /\ q = d) => last.out = One
               /\ (q # <<>> /\ d # <<>> /\ q # d)
                     => /\ 5 * LcsLen(q, d) < Len(q) + Len(d) => last.out = 0
                        /\ 5 * LcsLen(q, d) >= Len(q) + Len(d)
                              => /\ last.out = FuzzRatio(q, d) * Milli
                                 /\ last.out >= 40 * (One \div 100)
                                 /\ last.out < One
               /\ ~(0 < last.out /\ last.out < 40 * (One \div 100))
               /\ (/\ last.query_plate = <<"A", "1", "2", "3", "B", "C", "7", "7">>
                   /\ last.db_plate = Text(<<"cyr:A", "1", "2", "3", "cyr:B", "cyr:C", "7", "7">>))
                     => last.out = One

\* Two plates with a similarity ratio of exactly 0.4, which is the score.
C16_Witness ==
    /\ last.op = "plate"
    /\ last.query_plate = <<"A", "1", "2", "3", "B", "C", "7", "7">>
    /\ last.db_plate = Text(<<"A", " ", "1">>)
    /\ last.out = 40 * (One \div 100)

(***************************************************************************)
(* The thresholds of the relaxation loop.                                  *)
(***************************************************************************)
\* C17 as stated: when the filter keeps nothing at final_min, the loop makes
\* one pass for each k >= 1 with final_min - 0.10 * k >= 0, until a pass
\* keeps a hit; from final_min = 0.30 these are 0.20, 0.10 and 0.00, so that
\* a hit which passes the gates at threshold 0 is returned by the relaxation
\* and not by the fallback.
C17_AsStated ==
    Returned /\ Passing(last.out.scored, last.out.parsed,
                        last.clip_min_pure, last.final_min) = <<>>
        => LET hundredths == 5 * GridIndex(last.final_min)
               n == Len(last.out.passes)
           IN  /\ last.out.passes[n].kept = <<>> => n - 1 = hundredths \div 10
               /\ (/\ last.final_min = Literal(30)
                   /\ Passing(last.out.scored, last.out.parsed,
                              last.clip_min_pure, 0) # <<>>)
                     => /\ last.out.path = "relaxed"
                        /\ n = 4
                        /\ last.out.passes[4].final_min = 0

(***************************************************************************)
(* The colour score of an object.                                          *)
(***************************************************************************)
\* The score of a colour name against a well-formed HSV text.
RegionScore(colour, col) ==
    ComputeColorScore(colour, col.s[1].val, col.s[2].val, col.s[3].val)

\* The regions of a person row the query asks a colour for and the row has a
\* well-formed HSV text for, each with its score.
UsableRegions(parsed, row) ==
    (IF parsed.upper_color # NoneStr /\ WellFormedHsv(row.upper_color_hsv)
     THEN {<<"upper", RegionScore(parsed.upper_color, row.upper_color_hsv)>>} ELSE {})
    \cup
    (IF parsed.lower_color # NoneStr /\ WellFormedHsv(row.lower_color_hsv)
     THEN {<<"lower", RegionScore(parsed.lower_color, row.lower_color_hsv)>>} ELSE {})

\* C18: the colour score of a PERSON candidate is the arithmetic mean of the
\* scores of the regions (upper, lower) the query asks a colour for and the
\* candidate has a parseable HSV text for: of both, of the one, or 0 if there
\* is none.  The colour score of a TRANSPORT candidate is the score of the
\* query's generic colour against the vehicle's HSV text, 0 if either is
\* absent.
C18_ObjectColorScore ==
    Scorable
        => \A i \in 1..Len(last.out.scored) :
              LET hit == last.out.scored[i]
                  row == db[hit.frame_id]
                  regions == UsableRegions(last.out.parsed, row)
              IN  /\ row.object_type = "PERSON"
                        => /\ regions = {} => hit.color_score = 0
                           /\ \A r \in regions :
                                 Cardinality(regions) = 1 => hit.color_score = r[2]
                           /\ \A r, q \in regions :
                                 r[1] # q[1] => 2 * hit.color_score = r[2] + q[2]
                  /\ row.object_type = "TRANSPORT"
                        => hit.color_score =
                              IF /\ last.out.parsed.color # NoneStr
                                 /\ WellFormedHsv(row.color_hsv)
                              THEN RegionScore(last.out.parsed.color, row.color_hsv)
                              ELSE 0

\* A query with an upper and a lower colour scores two persons: one with both
\* HSV texts, whose score is the mean of two different region scores, and one
\* with the lower text only, whose score is that region's.
C18_Witness ==
    /\ Returned
    /\ last.out.parsed.upper_color # NoneStr
    /\ last.out.parsed.lower_color # NoneStr
    /\ \E i, j \in 1..Len(last.out.scored) :
          LET a == db[last.out.scored[i].frame_id]
              b == db[last.out.scored[j].frame_id]
              ra == UsableRegions(last.out.parsed, a)
              rb == UsableRegions(last.out.parsed, b)
          IN  /\ Cardinality(ra) = 2
              /\ \E r, q \in ra : r[2] < last.out.scored[i].color_score
                                  /\ last.out.scored[i].color_score < q[2]
              /\ Cardinality(rb) = 1
              /\ ~WellFormedHsv(b.upper_color_hsv)
              /\ last.out.scored[j].color_score > 0

(***************************************************************************)
(* Colours and garments.                                                   *)
(***************************************************************************)
\* The colour a token of the long texts names, if any.
ColourNamed(token) ==
    IF token = "red" THEN "red" ELSE IF token = "black" THEN "black" ELSE NoneStr

ColourIndices(text) == { j \in 1..Len(text) : ColourNamed(text[j]) # NoneStr }

\* The colour tokens within 3 tokens of index i, and the nearest of them.
Within(text, i) == { j \in ColourIndices(text) : Abs(j - i) <= 3 }

Nearest(text, i) ==
    { j \in Within(text, i) : \A k \in Within(text, i) : Abs(j - i) <= Abs(k - i) }

\* The indices of a garment keyword that have a colour within 3 tokens.
Assigning(text, garment) ==
    { i \in 1..Len(text) : text[i] = garment /\ Within(text, i) # {} }

\* The colour a region is given: none without an assigning keyword, else the
\* colour of a nearest colour token of the first assigning keyword.
RegionGiven(text, garment, colour) ==
    IF Assigning(text, garment) = {} THEN colour = NoneStr
    ELSE \E i \in Assigning(text, garment) :
            /\ \A k \in Assigning(text, garment) : i <= k
            /\ \E j \in Nearest(text, i) : colour = ColourNamed(text[j])

FirstColour(text) ==
    IF ColourIndices(text) = {} THEN NoneStr
    ELSE ColourNamed(text[CHOOSE j \in ColourIndices(text) :
                              \A k \in ColourIndices(text) : j <= k])

\* C19: colours are assigned to regions only when the type is PERSON and a
\* colour token was found.  Scanning the tokens left to right, an upper (lower)
\* garment keyword at index i sets the upper (lower) colour, unless already
\* set, to the colour of the colour token nearest to i among those at most 3
\* tokens away; a keyword with no colour within 3 tokens assigns nothing.  If
\* neither region is assigned, or the type is not PERSON, the first colour
\* found, if any, is the generic colour.
C19_ColourToRegion ==
    Parsed
        => LET text == last.text
               out  == last.out
           IN  /\ out.type # "PERSON"
                     => out.upper_color = NoneStr /\ out.lower_color = NoneStr
               /\ out.type = "PERSON"
                     => /\ RegionGiven(text, "kurtka", out.upper_color)
                        /\ RegionGiven(text, "shtany", out.lower_color)
               /\ (out.type # "PERSON"
                      \/ (out.upper_color = NoneStr /\ out.lower_color = NoneStr))
                     => out.color = FirstColour(text)

\* A person query whose only colour is 4 tokens from the garment keyword:
\* nothing is assigned and the colour is the generic one.
C19_Witness ==
    /\ Parsed
    /\ last.text = <<"red", "man", "near", "near", "kurtka">>
    /\ last.out.type = "PERSON"
    /\ last.out.upper_color = NoneStr
    /\ last.out.color = "red"

(***************************************************************************)
(* The plate and the tokens.                                               *)
(***************************************************************************)
PlateIndices(text) == { i \in 1..Len(text) : text[i] = "a123bc77" }

\* The text without its first plate.
WithoutFirstPlate(text) ==
    IF PlateIndices(text) = {} THEN text
    ELSE LET i == CHOOSE i \in PlateIndices(text) : \A k \in PlateIndices(text) : i <= k
         IN  SubSeq(text, 1, i - 1) \o SubSeq(text, i + 1, Len(text))

\* C20 as stated: parse_query extracts at most one plate, the first match, and
\* removes it from the text before anything else is done: the cleaned text is
\* the text without that plate, and the colours are assigned to the regions on
\* the tokens of the cleaned text, so that the plate's tokens do not count in
\* the distance between a colour and a garment keyword.
C20_AsStated ==
    Parsed
        => LET text == last.text
               out  == last.out
           IN  /\ out.plate # <<>> <=> PlateIndices(text) # {}
               /\ out.cleaned_text = WithoutFirstPlate(text)
               /\ out.type = "PERSON"
                     => /\ RegionGiven(out.cleaned_text, "kurtka", out.upper_color)
                        /\ RegionGiven(out.cleaned_text, "shtany", out.lower_color)

(***************************************************************************)
(* The order of the result.                                                *)
(***************************************************************************)
\* Hit a comes before hit b: a higher key, or the same key and an earlier
\* arrival (a candidate's position in the fetched list is its frame id).
Precedes(a, b, key) ==
    \/ a[key] > b[key]
    \/ a[key] = b[key] /\ a.frame_id < b.frame_id

Units(s, e) == { t \in Instants : s <= t /\ t < e }

Covered(periods) ==
    UNION { Units(periods[i].start_at.t, periods[i].end_at.t) : i \in 1..Len(periods) }

\* The returned ranges that belong to the k-th requested range: those from
\* position a to position b of the result.
Share(out, a, b, item, periods) ==
    LET s == item.start_at.t
        e == item.end_at.t
    IN  /\ \A i \in a..b :
              /\ out[i].start_at.t < out[i].end_at.t
              /\ s <= out[i].start_at.t /\ out[i].end_at.t <= e
              /\ Units(out[i].start_at.t, out[i].end_at.t) \cap Covered(periods) = {}
              /\ out[i].start_at.sep = "T" /\ out[i].end_at.sep = "T"
        /\ \A i \in a..(b - 1) : out[i].end_at.t < out[i + 1].start_at.t
        /\ UNION { Units(out[i].start_at.t, out[i].end_at.t) : i \in a..b }
              = Units(s, e) \ Covered(periods)

\* The result is the shares of the requested ranges, one after the other.
RECURSIVE Shares(_, _, _, _)
Shares(out, a, requested, periods) ==
    IF requested = <<>> THEN a = Len(out) + 1
    ELSE \E b \in (a - 1)..Len(out) :
            /\ Share(out, a, b, Head(requested), periods)
            /\ Shares(out, b + 1, Tail(requested), periods)

\* C23: for every requested range with start < end and any list of existing
\* periods, compute_missing_ranges returns exactly the part of the range no
\* period covers: each returned range is non-empty, lies inside the requested
\* range and overlaps no period; the ranges returned for one request are in
\* ascending order and disjoint, and with the periods they cover the request.
\* A requested range with end <= start contributes nothing.
C23_MissingRanges ==
    last.op = "missing"
        => Shares(last.out, 1, last.requested, last.existing_periods)

\* A request with two overlapping periods inside it, stored out of order:
\* the range before them and the range after them are returned.
C23_Witness ==
    /\ last.op = "missing"
    /\ Len(last.requested) = 1
    /\ Len(last.existing_periods) = 2
    /\ last.existing_periods[1].start_at.t > last.existing_periods[2].start_at.t
    /\ last.existing_periods[1].start_at.t < last.existing_periods[2].end_at.t
    /\ Len(last.out) = 2

\* C27: once the ranges compute_missing_ranges returned for a request are
\* added to the existing periods, the same request has no missing range.
C27_FixedPoint ==
    last.op = "missing" => last.again = <<>>

\* A request of two ranges for which three ranges were returned, none at the
\* second call.
C27_Witness ==
    /\ last.op = "missing"
    /\ Len(last.requested) = 2
    /\ Len(last.out) = 3
    /\ last.again = <<>>

(***************************************************************************)
(* The colours of the parser and the colours of the colour score.          *)
(***************************************************************************)
\* The colours parse_query has placed in color, upper_color or lower_color.
ParsedColours(parsed) ==
    {parsed.color, parsed.upper_color, parsed.lower_color} \ {NoneStr}

\* C24 as stated: every colour parse_query places in color, upper_color or
\* lower_color is one compute_color_score supports, so that some stored HSV
\* gives it a score above 0.
C24_AsStated ==
    last.op = "parse"
        => \A color \in ParsedColours(last.out) :
              /\ color \in SUPPORTED_COLORS
              /\ \E h \in Hues, s \in Saturations, v \in Values :
                    ComputeColorScore(color, h, s, v) > 0

(***************************************************************************)
(* Queries with a colour or a plate and no object type.                    *)
(***************************************************************************)
\* The call has returned for a query with no type and a colour or a plate.
NoTypeWithAttribute ==
    /\ Returned
    /\ last.out.parsed.type = NoneStr
    /\ QueryHasColor(last.out.parsed) \/ QueryHasPlate(last.out.parsed)

\* C25: for a query with no object type and a colour or a plate, every frame
\* hit has color_score = plate_score = 0 and no pass of the filter keeps a hit;
\* the result is the fallback, the (at most 5) hits of the largest clip_score,
\* and it is the same for every clip_min_pure and final_min.
C25_NoTypeFallback ==
    NoTypeWithAttribute
        => LET out == last.out
           IN  /\ \A hit \in Elements(out.scored) :
                     hit.color_score = 0 /\ hit.plate_score = 0
               /\ \A i \in 1..Len(out.passes) : out.passes[i].kept = <<>>
               /\ out.path \in {"fallback", "empty"}
               /\ Len(out.result) = Min(5, Len(out.scored))
               /\ Elements(out.result) \subseteq Elements(out.scored)
               /\ \A hit \in Elements(out.scored) \ Elements(out.result) :
                     \A i \in 1..Len(out.result) :
                         out.result[i].clip_score >= hit.clip_score
               /\ \A th \in Thresholds :
                     SearchByText(db, last.text, Literal(th[1]), Literal(th[2]),
                                  last.latents).result = out.result

\* A colour query with no type over six frames, one of which is above both
\* thresholds: five hits are returned by the fallback.
C25_Witness ==
    /\ NoTypeWithAttribute
    /\ QueryHasColor(last.out.parsed)
    /\ Len(last.out.scored) = 6
    /\ Len(last.out.result) = 5
    /\ last.out.path = "fallback"
    /\ \E hit \in Elements(last.out.scored) :
          hit.clip_score >= last.clip_min_pure /\ hit.final_score >= last.final_min

(***************************************************************************)
(* Queries for a person with a colour bound to no garment.                 *)
(***************************************************************************)
\* The call has returned for a PERSON query whose colour is the generic one.
PersonWithGenericColour ==
    /\ Returned
    /\ last.out.parsed.type = "PERSON"
    /\ last.out.parsed.color # NoneStr

\* C26: for a PERSON query whose colour is the generic colour, the colour is
\* not compared with the upper or lower HSV of a person: every candidate has
\* color_score 0, no pass of the filter keeps a hit, and the result is the
\* fallback, the (at most 5) hits of the largest clip_score.
C26_GenericColourPerson ==
    PersonWithGenericColour
        => LET out == last.out
           IN  /\ out.parsed.upper_color = NoneStr /\ out.parsed.lower_color = NoneStr
               /\ \A hit \in Elements(out.scored) : hit.color_score = 0
               /\ \A i \in 1..Len(out.passes) : out.passes[i].kept = <<>>
               /\ out.path \in {"fallback", "empty"}
               /\ Len(out.result) = Min(5, Len(out.scored))
               /\ Elements(out.result) \subseteq Elements(out.scored)
               /\ \A i, j \in 1..Len(out.result) :
                     i < j => out.result[i].clip_score >= out.result[j].clip_score

\* A query for a red person over a store with a person whose upper HSV is
\* red: the person is returned by the fallback with color_score 0.
C26_Witness ==
    /\ PersonWithGenericColour
    /\ last.out.path = "fallback"
    /\ \E i \in 1..Len(last.out.result) :
          LET row == db[last.out.result[i].frame_id]
          IN  /\ row.object_type = "PERSON"
              /\ WellFormedHsv(row.upper_color_hsv)
              /\ RegionScore(last.out.parsed.color, row.upper_color_hsv) > 0
              /\ last.out.result[i].color_score = 0

(***************************************************************************)
(* Properties of process_video_fragment_usecase.                           *)
(***************************************************************************)
Vectorized == last.op = "vectorize"

\* The periods a call has stored: the period rows after it that were not
\* there before.
StoredBy(before_rows, after_rows) ==
    { after_rows[i] : i \in { k \in 1..Len(after_rows) :
                                 after_rows[k].table = "vectorized_periods" } }
    \ { before_rows[i] : i \in 1..Len(before_rows) }

\* The ranges of the request no stored period covers, by their instants.
Uncovered(ranges, rows) ==
    UNION { Units(ranges[i].start_at.t, ranges[i].end_at.t) : i \in 1..Len(ranges) }
    \ Covered(ListForSource(rows))

\* C22: the use case writes one period for each missing range, and only once
\* process_video has returned; if process_video raises, the call raises and
\* writes no period; if no range is missing, process_video is not called and
\* no period is written.
C22_PeriodsAfterSuccess ==
    Vectorized
        => LET out == last.out
               stored == StoredBy(last.before, db)
           IN  /\ stored # {} => out.called /\ out.processed
               /\ out.called /\ ~out.processed => out.status = "raised" /\ stored = {}
               /\ Uncovered(last.ranges, last.before) = {}
                     => ~out.called /\ stored = {} /\ out.status = "returned"
               /\ out.processed
                     => /\ out.status = "returned"
                        /\ stored = { PeriodRow(out.missing[i]) : i \in 1..Len(out.missing) }
                        /\ Covered(ListForSource(db)) \ Covered(ListForSource(last.before))
                              = Uncovered(last.ranges, last.before)
               /\ Uncovered(last.ranges, last.before) # {}
                     => out.called /\ (out.processed <=> last.pipeline = "ok"
                                                         /\ TimeMapperBuilt(last.ranges))

\* A request around a stored period, processed: two periods are written.
C22_Witness ==
    /\ Vectorized
    /\ RowsOf(last.before, "vectorized_periods") # <<>>
    /\ last.out.processed
    /\ Cardinality(StoredBy(last.before, db)) = 2

\* The frames a call has stored.
FramesBy(before_rows, after_rows) ==
    SubSeq(RowsOf(after_rows, "frames"), Len(RowsOf(before_rows, "frames")) + 1,
           Len(RowsOf(after_rows, "frames")))

Running(job) == { r \in 1..Len(job.runners) : job.runners[r] # "spawned" }

StatusMoves == { <<"PENDING", "RUNNING">>, <<"RUNNING", "DONE">>, <<"RUNNING", "FAILED">> }

====
